---- MODULE Spec2Model ----
(***************************************************************************)
(* Shopping lists and cooking sessions of kitchen-sync: the handlers       *)
(* generateShoppingListFromMealPlan, createShoppingList,                   *)
(* createShoppingListItem, updateShoppingListItem, the readers             *)
(* getShoppingLists and getShoppingListDetails, createMealPlanEntry,       *)
(* startCookingSession, updateCookingSession, completeCookingSession,      *)
(* createRecipe and updateRecipe, over the tables of server/src/db/schema, *)
(* and the step navigation and the timer of the client's CookingMode.      *)
(*                                                                         *)
(* Representation.                                                         *)
(*  - A nullable column is a sequence of length at most one: <<>> is SQL   *)
(*    NULL (JS null), <<v>> is the value v.                                *)
(*  - A JS string that the code takes apart or concatenates (a unit, a Map *)
(*    key) is a sequence of one-character strings.                         *)
(*  - A quantity (column type real, JS number) is an integer number of     *)
(*    hundredths: 2 cups is 200, 0.25 cup is 25.  Floating-point rounding  *)
(*    error is not modelled.                                               *)
(*    The running total of createShoppingList is an exact fraction, so     *)
(*    that its rounding to two decimals is a step of the model.            *)
(*  - An optional input field is a sequence of length at most one: <<>> is *)
(*    undefined, <<v>> is the supplied value v (which may itself be null). *)
(*  - A timestamp (new Date()) is the token Now.                           *)
(*  - A handler invocation is a process: its position (pc) advances by one *)
(*    awaited database statement per step, so statements of concurrent     *)
(*    invocations interleave exactly at the awaits.                        *)
(***************************************************************************)
EXTENDS Integers, Sequences, FiniteSets, TLC

\* ---------------------------------------------------------------- bounds
MaxEntries == 2

\* the longest unit string looked at
MaxUnitLen == 3

\* the most joined rows of one ingredient that are summed up
MaxRows == 2

\* the most steps or lines the instructions of a recipe hold
MaxSteps == 3

\* the most clicks on the timer buttons of CookingMode
MaxClicks == 3

\* ------------------------------------------------------- nullable values
Null == <<>>
Some(v) == <<v>>
IsNull(x) == x = <<>>
Val(x) == x[1]

\* ------------------------------------------------------------ the data
\* hundredths per unit of quantity
QUnit == 10 * 10

Cup == <<"c", "u", "p">>
Tbsp == <<"t", "b", "s", "p">>
Piece == <<"p", "c">>

\* invocations of generateShoppingListFromMealPlan that may overlap
Procs == {"g1", "g2"}

\* ids a caller may pass as mealPlanId; 9 matches no meal plan
PlanArgs == {1, 2, 9}

\* servings a caller schedules an entry with
ServingsArgs == {1, 2}
Names == {"Weekly"}

VARIABLES
  mealPlans,          \* meal_plans: set of ids
  recipes,            \* recipes: id -> [servings]
  recipeIngredients,  \* recipe_ingredients: sequence of rows
  ingredients,        \* ingredients: id -> [name, category]
  mealPlanEntries,    \* meal_plan_entries: sequence of rows, in insertion order
  shoppingLists,      \* shopping_lists: set of rows
  shoppingListItems,  \* shopping_list_items: set of rows
  nextListId,         \* serial of shopping_lists.id
  nextItemId,         \* serial of shopping_list_items.id
  pc,                 \* position of each generator invocation
  args,               \* (mealPlanId, name) of each invocation
  ingredientMap,      \* local Map of each invocation, in insertion order
  shoppingList,       \* local shoppingList (the returned row) of each invocation
  error,              \* the error an invocation rejected with
  seen,               \* history: number of meal_plan_entries rows when the invocation ran its join
  inserted,           \* history: ids of the item rows the invocation inserted
  rd,                 \* the reader (getShoppingListDetails in progress)
  observed,           \* what the last reader call returned
  csl,                \* the createShoppingList invocation: position, input and locals
  cookingSessions,    \* cooking_sessions: set of rows
  nextSessionId,      \* serial of cooking_sessions.id
  last,               \* the last call of a handler that is one step: its id and its outcome
  supplied,           \* history: item id -> the value last supplied for each field by an update
  calc,               \* the arguments and the result of the last pure computation looked at
  cm,                 \* the state of the CookingMode component (useState) and what it sent
  cr                  \* the invocation of createRecipe: its position, input, row and error

tables == <<mealPlans, recipes, recipeIngredients, ingredients, mealPlanEntries>>
store == <<shoppingLists, shoppingListItems, nextListId, nextItemId>>
gen == <<pc, args, ingredientMap, shoppingList, error, seen, inserted>>
reader == <<rd, observed>>
cooking == <<cookingSessions, nextSessionId>>
aside == <<calc, cm, cr>>
ext == <<csl, cooking, last, supplied, aside>>
vars == <<tables, store, gen, reader, ext>>

\* ------------------------------------------------- strings and numbers
DigitChars == <<"0", "1", "2", "3", "4", "5", "6", "7", "8", "9">>
DigitChar(d) == DigitChars[d + 1]
DigitVal(c) == CHOOSE d \in 0..9 : DigitChars[d + 1] = c
IsDigit(c) == \E d \in 0..9 : DigitChars[d + 1] = c

\* String(n) of a non-negative integer n, as a template literal renders it
RECURSIVE Digits(_)
Digits(n) == IF n < 10 THEN <<DigitChar(n)>>
             ELSE Digits(n \div 10) \o <<DigitChar(n % 10)>>

\* quantity.toString() of a non-negative quantity q (in hundredths):
\* the integer part, then "." and the fraction without trailing zeros
NumToString(q) ==
  LET ip == q \div QUnit
      fr == q % QUnit
  IN IF fr = 0 THEN Digits(ip)
     ELSE IF fr % 10 = 0 THEN Digits(ip) \o <<".", DigitChar(fr \div 10)>>
     ELSE Digits(ip) \o <<".", DigitChar(fr \div 10), DigitChar(fr % 10)>>

\* the integer denoted by the leading digits of s, continuing from acc
RECURSIVE ParseInt(_, _)
ParseInt(s, acc) ==
  IF s = <<>> \/ ~IsDigit(Head(s)) THEN acc
  ELSE ParseInt(Tail(s), acc * 10 + DigitVal(Head(s)))

RECURSIVE DropDigits(_)
DropDigits(s) == IF s = <<>> \/ ~IsDigit(Head(s)) THEN s ELSE DropDigits(Tail(s))

\* parseFloat(s) for the strings NumToString produces, in hundredths
ParseFloat(s) ==
  LET ip == ParseInt(s, 0)
      rest == DropDigits(s)
      fs == IF rest # <<>> /\ Head(rest) = "." THEN Tail(rest) ELSE <<>>
      d1 == IF Len(fs) >= 1 /\ IsDigit(fs[1]) THEN DigitVal(fs[1]) ELSE 0
      d2 == IF Len(fs) >= 2 /\ IsDigit(fs[1]) /\ IsDigit(fs[2]) THEN DigitVal(fs[2]) ELSE 0
  IN ip * QUnit + d1 * 10 + d2

\* ------------------------------------------------------ the join query
\* recipe_ingredients INNER JOIN ingredients, for one meal_plan_entries row e:
\* one result row per line of e's recipe whose ingredient exists
RECURSIVE JoinLines(_, _)
JoinLines(e, k) ==
  IF k > Len(recipeIngredients) THEN <<>>
  ELSE LET ri == recipeIngredients[k]
       IN IF ri.recipe_id = e.recipe_id /\ ri.ingredient_id \in DOMAIN ingredients
          THEN <<[entry_id |-> e.id,
                  servings |-> e.servings,
                  ingredient_id |-> ri.ingredient_id,
                  quantity |-> ri.quantity,
                  unit |-> ri.unit,
                  ingredient_name |-> ingredients[ri.ingredient_id].name,
                  ingredient_category |-> ingredients[ri.ingredient_id].category]>>
               \o JoinLines(e, k + 1)
          ELSE JoinLines(e, k + 1)

\* the join without its WHERE clause
EntryMatches_AnyPlan(e, mealPlanId) == e.meal_plan_id \in mealPlans

\* WHERE meal_plan_entries.meal_plan_id = mealPlanId
EntryMatches(e, mealPlanId) == e.meal_plan_id = mealPlanId

\* mealPlanData: the rows of the three-table join for mealPlanId
RECURSIVE MealPlanData(_, _)
MealPlanData(mealPlanId, i) ==
  IF i > Len(mealPlanEntries) THEN <<>>
  ELSE IF EntryMatches(mealPlanEntries[i], mealPlanId)
       THEN JoinLines(mealPlanEntries[i], 1) \o MealPlanData(mealPlanId, i + 1)
       ELSE MealPlanData(mealPlanId, i + 1)

\* ---------------------------------------------------- the aggregation
\* the key built from the ingredient id alone
MapKey_NoUnit(ingredient_id, unit) == Digits(ingredient_id)

\* the id and the unit put side by side, without the "-"
MapKey_NoSeparator(ingredient_id, unit) == Digits(ingredient_id) \o unit

\* key = `${entry.ingredient_id}-${entry.unit}`
MapKey(ingredient_id, unit) == Digits(ingredient_id) \o <<"-">> \o unit

\* the line's quantity taken as it is, whatever the entry schedules
ScaledQuantity_Unscaled(row) == ParseFloat(NumToString(row.quantity))

\* scaledQuantity = parseFloat(entry.quantity.toString()) * entry.servings
ScaledQuantity(row) == ParseFloat(NumToString(row.quantity)) * row.servings

\* ingredientMap.has(key): the index of key in the Map, 0 when absent
MapIndex(m, key) ==
  IF \E i \in 1..Len(m) : m[i].key = key
  THEN CHOOSE i \in 1..Len(m) : m[i].key = key
  ELSE 0

\* the loop without the has(key) branch: every row becomes a Map entry
AddRow_NoMerge(m, row) ==
  Append(m, [key |-> MapKey(row.ingredient_id, row.unit) \o Digits(Len(m)),
             ingredient_id |-> row.ingredient_id,
             name |-> row.ingredient_name,
             total_quantity |-> ScaledQuantity(row),
             unit |-> row.unit,
             category |-> row.ingredient_category])

\* one iteration of the for loop over mealPlanData
AddRow(m, row) ==
  LET key == MapKey(row.ingredient_id, row.unit)
      i == MapIndex(m, key)
  IN IF i # 0
     THEN [m EXCEPT ![i].total_quantity = @ + ScaledQuantity(row)]
     ELSE Append(m, [key |-> key,
                     ingredient_id |-> row.ingredient_id,
                     name |-> row.ingredient_name,
                     total_quantity |-> ScaledQuantity(row),
                     unit |-> row.unit,
                     category |-> row.ingredient_category])

\* the whole loop: the Map after rows[1..n] were processed
RECURSIVE Aggregate(_, _)
Aggregate(rows, n) ==
  IF n = 0 THEN <<>> ELSE AddRow(Aggregate(rows, n - 1), rows[n])

\* shoppingListItems: the rows built from the Map's values, with the ids the
\* serial column gives them in order; notes is not supplied and defaults to NULL
ItemRow(ingredient, listId, id) ==
  [id |-> id,
   shopping_list_id |-> listId,
   ingredient_id |-> Some(ingredient.ingredient_id),
   name |-> ingredient.name,
   quantity |-> Some(ingredient.total_quantity),
   unit |-> Some(ingredient.unit),
   category |-> ingredient.category,
   is_purchased |-> FALSE,
   notes |-> Null]

\* the id of the list record inserted last, by whichever invocation
BatchListId_Latest(p) == nextListId - 1

\* the shopping_list_id the item batch is given: shoppingList.id
BatchListId(p) == Val(shoppingList[p]).id

\* the batch without the pairs some stored item already has
ItemBatch_SkipStored(m, listId, firstId) ==
  {ItemRow(m[i], listId, firstId + i - 1) :
     i \in {j \in 1..Len(m) :
              \A it \in shoppingListItems :
                ~(it.ingredient_id = Some(m[j].ingredient_id) /\ it.unit = Some(m[j].unit))}}

ItemBatch(m, listId, firstId) ==
  {ItemRow(m[i], listId, firstId + i - 1) : i \in 1..Len(m)}

\* an insert that also resets the rows already stored
InsertItems_Reset(items, batch) ==
  {[it EXCEPT !.is_purchased = FALSE, !.notes = Null] : it \in items} \cup batch

\* db.insert(shoppingListItemsTable).values(batch): the stored rows stay
InsertItems(items, batch) == items \cup batch

\* --------------------------------------------------------------- errors
NoError == [kind |-> "none", id |-> 0]
NotFound(id) == [kind |-> "NotFound", id |-> id]
StoreFailure == [kind |-> "StoreFailure", id |-> 0]
MealPlanNotFound(id) == [kind |-> "MealPlanNotFound", id |-> id]
RecipeNotFound(id) == [kind |-> "RecipeNotFound", id |-> id]

\* ----------------------------------------------------------------- Init
Undefined == <<>>
Given(v) == <<v>>
IsGiven(x) == x # <<>>
Arg(x) == x[1]

\* the catalogue of the generator's tests: two plans, a recipe declaring 4
\* servings and one declaring none, sharing Flour (same unit) and Milk
\* (different units)
InitCatalogue ==
  /\ mealPlans = {1, 2}
  /\ recipes = (1 :> [servings |-> Some(4)]) @@ (2 :> [servings |-> Null])
  /\ ingredients = (1 :> [name |-> "Flour", category |-> Some("Baking")])
                @@ (2 :> [name |-> "Milk", category |-> Some("Dairy")])
                @@ (3 :> [name |-> "Eggs", category |-> Null])
  /\ recipeIngredients =
       << [id |-> 1, recipe_id |-> 1, ingredient_id |-> 1, quantity |-> 2 * QUnit, unit |-> Cup],
          [id |-> 2, recipe_id |-> 1, ingredient_id |-> 2, quantity |-> 25, unit |-> Cup],
          [id |-> 3, recipe_id |-> 2, ingredient_id |-> 1, quantity |-> 3 * QUnit, unit |-> Cup],
          [id |-> 4, recipe_id |-> 2, ingredient_id |-> 2, quantity |-> 4 * QUnit, unit |-> Tbsp],
          [id |-> 5, recipe_id |-> 2, ingredient_id |-> 3, quantity |-> 1 * QUnit, unit |-> Piece] >>

\* no shopping list, no item, no cooking session; no handler has been called
InitStore ==
  /\ shoppingLists = {}
  /\ shoppingListItems = {}
  /\ nextListId = 1
  /\ nextItemId = 1
  /\ pc = [p \in Procs |-> "idle"]
  /\ args = [p \in Procs |-> [mealPlanId |-> 0, name |-> ""]]
  /\ ingredientMap = [p \in Procs |-> <<>>]
  /\ shoppingList = [p \in Procs |-> Null]
  /\ error = [p \in Procs |-> NoError]
  /\ seen = [p \in Procs |-> 0]
  /\ inserted = [p \in Procs |-> {}]
  /\ rd = [pc |-> "idle", id |-> 0, list |-> Null]
  /\ observed = [op |-> "none", lists |-> {}, items |-> {}]
  /\ csl = [pc |-> "idle", input |-> [name |-> "", meal_plan_id |-> Null],
            shoppingList |-> Null, ingredientMap |-> <<>>, error |-> NoError,
            seen |-> 0]
  /\ cookingSessions = {}
  /\ nextSessionId = 1
  /\ last = [op |-> "none", id |-> 0, outcome |-> "none", error |-> NoError]
  /\ calc = [op |-> "none"]
  /\ cm = [mounted |-> FALSE, instructions |-> [kind |-> "text", parts |-> <<>>],
           steps |-> <<>>, currentStep |-> 0, cookingSession |-> FALSE,
           sent |-> Null, timer |-> 0, isTimerRunning |-> FALSE, clicks |-> 0]
  /\ cr = [pc |-> "idle", input |-> [servings |-> Null, ingredients |-> <<>>],
           recipe |-> Null, error |-> NoError]
  /\ supplied = <<>>

Init ==
  /\ InitCatalogue
  /\ mealPlanEntries = <<>>
  /\ InitStore

\* ------------------------------------------------- createMealPlanEntry
\* the lookups with the one of the recipe left out
EntryError_RecipeUnchecked(meal_plan_id, recipe_id) ==
  IF meal_plan_id \notin mealPlans THEN MealPlanNotFound(meal_plan_id)
  ELSE NoError

\* the two lookups in the handler's order: what it throws, if anything
EntryError(meal_plan_id, recipe_id) ==
  IF meal_plan_id \notin mealPlans THEN MealPlanNotFound(meal_plan_id)
  ELSE IF recipe_id \notin DOMAIN recipes THEN RecipeNotFound(recipe_id)
  ELSE NoError

\* a call that passes both lookups: inserts one row.  No handler deletes a
\* meal plan or a recipe, so the lookups and the insert are one step
createMealPlanEntry(meal_plan_id, recipe_id, servings) ==
  /\ Len(mealPlanEntries) < MaxEntries
  /\ EntryError(meal_plan_id, recipe_id) = NoError
  /\ mealPlanEntries' = Append(mealPlanEntries,
        [id |-> Len(mealPlanEntries) + 1, meal_plan_id |-> meal_plan_id,
         recipe_id |-> recipe_id, servings |-> servings])
  /\ UNCHANGED <<mealPlans, recipes, recipeIngredients, ingredients, store, gen, reader, ext>>

\* a call that fails a lookup: throws the error of the first lookup that
\* finds nothing and writes no row
createMealPlanEntryRejects(meal_plan_id, recipe_id) ==
  /\ EntryError(meal_plan_id, recipe_id) # NoError
  /\ last' = [op |-> "createMealPlanEntry", id |-> 0, outcome |-> "error",
              error |-> EntryError(meal_plan_id, recipe_id)]
  /\ UNCHANGED <<tables, store, gen, reader, aside, csl, cooking, supplied>>

\* ------------------------------------ generateShoppingListFromMealPlan
\* the call: nothing has run yet, the first statement is awaited next
GenCall(p, mealPlanId, name) ==
  /\ pc[p] = "idle"
  /\ pc' = [pc EXCEPT ![p] = "checkPlan"]
  /\ args' = [args EXCEPT ![p] = [mealPlanId |-> mealPlanId, name |-> name]]
  /\ UNCHANGED <<tables, store, ingredientMap, shoppingList, error, seen, inserted, reader, ext>>

\* the existence check left out
PlanMissing_Never(mealPlanId) == FALSE

\* mealPlans.length === 0
PlanMissing(mealPlanId) == mealPlanId \notin mealPlans

\* select from meal_plans, throw when no row matches
GenCheckPlan(p) ==
  /\ pc[p] = "checkPlan"
  /\ IF PlanMissing(args[p].mealPlanId)
     THEN /\ pc' = [pc EXCEPT ![p] = "failed"]
          /\ error' = [error EXCEPT ![p] = NotFound(args[p].mealPlanId)]
     ELSE /\ pc' = [pc EXCEPT ![p] = "selectData"]
          /\ UNCHANGED error
  /\ UNCHANGED <<tables, store, args, ingredientMap, shoppingList, seen, inserted, reader, ext>>

\* the join query and the aggregation loop that follows it without an await;
\* the rows come in scan order: by entry, then by recipe line
GenSelectData(p) ==
  /\ pc[p] = "selectData"
  /\ LET mealPlanData == MealPlanData(args[p].mealPlanId, 1)
     IN ingredientMap' = [ingredientMap EXCEPT ![p] = Aggregate(mealPlanData, Len(mealPlanData))]
  /\ seen' = [seen EXCEPT ![p] = Len(mealPlanEntries)]
  /\ pc' = [pc EXCEPT ![p] = "insertList"]
  /\ UNCHANGED <<tables, store, args, shoppingList, error, inserted, reader, ext>>

\* the size check left out
HasItems_Always(m) == TRUE

\* ingredientMap.size > 0
HasItems(m) == Len(m) > 0

\* insert into shopping_lists ... returning; with an empty Map the handler
\* returns right after it
GenInsertList(p) ==
  /\ pc[p] = "insertList"
  /\ LET row == [id |-> nextListId, name |-> args[p].name,
                 meal_plan_id |-> Some(args[p].mealPlanId)]
     IN /\ shoppingLists' = shoppingLists \cup {row}
        /\ shoppingList' = [shoppingList EXCEPT ![p] = Some(row)]
  /\ nextListId' = nextListId + 1
  /\ pc' = [pc EXCEPT ![p] = IF HasItems(ingredientMap[p]) THEN "insertItems" ELSE "done"]
  /\ UNCHANGED <<tables, shoppingListItems, nextItemId, args, ingredientMap,
                 error, seen, inserted, reader, ext>>

\* insert into shopping_list_items values (the whole batch), then return
GenInsertItems(p) ==
  /\ pc[p] = "insertItems"
  /\ LET batch == ItemBatch(ingredientMap[p], BatchListId(p), nextItemId)
     IN /\ shoppingListItems' = InsertItems(shoppingListItems, batch)
        /\ inserted' = [inserted EXCEPT ![p] = {it.id : it \in batch}]
  /\ nextItemId' = nextItemId + Len(ingredientMap[p])
  /\ pc' = [pc EXCEPT ![p] = "done"]
  /\ UNCHANGED <<tables, shoppingLists, nextListId, args, ingredientMap,
                 shoppingList, error, seen, reader, ext>>

\* an awaited statement rejects (the store fails): the catch block logs and
\* rethrows, nothing is undone; the Map goes out of scope with the throw
GenStoreFailure(p) ==
  /\ pc[p] \in {"checkPlan", "selectData", "insertList", "insertItems"}
  /\ pc' = [pc EXCEPT ![p] = "failed"]
  /\ error' = [error EXCEPT ![p] = StoreFailure]
  /\ ingredientMap' = [ingredientMap EXCEPT ![p] = <<>>]
  /\ seen' = [seen EXCEPT ![p] = 0]
  /\ UNCHANGED <<tables, store, args, shoppingList, inserted, reader, ext>>

\* ------------------------------------------------------------- readers
\* getShoppingLists: one select of all shopping_lists rows
getShoppingLists ==
  /\ rd.pc = "idle"
  /\ observed' = [op |-> "lists", lists |-> shoppingLists, items |-> {}]
  /\ UNCHANGED <<tables, store, gen, rd, ext>>

\* getShoppingListDetails, first statement: select the list; null when absent
DetailsSelectList(id) ==
  /\ rd.pc = "idle"
  /\ IF \E l \in shoppingLists : l.id = id
     THEN /\ rd' = [pc |-> "items", id |-> id,
                    list |-> Some(CHOOSE l \in shoppingLists : l.id = id)]
          /\ UNCHANGED observed
     ELSE /\ observed' = [op |-> "details", lists |-> {}, items |-> {}]
          /\ UNCHANGED rd
  /\ UNCHANGED <<tables, store, gen, ext>>

\* getShoppingListDetails, second statement: select the items of the list
DetailsSelectItems ==
  /\ rd.pc = "items"
  /\ observed' = [op |-> "details", lists |-> {Val(rd.list)},
                  items |-> {it \in shoppingListItems : it.shopping_list_id = rd.id}]
  /\ rd' = [pc |-> "idle", id |-> 0, list |-> Null]
  /\ UNCHANGED <<tables, store, gen, ext>>

\* ----------------------------------------------------------------- Next
Next ==
  \/ \E m \in mealPlans, r \in DOMAIN recipes, s \in ServingsArgs :
        createMealPlanEntry(m, r, s)
  \/ \E p \in Procs, m \in PlanArgs, n \in Names : GenCall(p, m, n)
  \/ \E p \in Procs : GenCheckPlan(p)
  \/ \E p \in Procs : GenSelectData(p)
  \/ \E p \in Procs : GenInsertList(p)
  \/ \E p \in Procs : GenInsertItems(p)
  \/ \E p \in Procs : GenStoreFailure(p)

Spec == Init /\ [][Next]_vars

\* one generator invocation running against the two readers
Readers == {"g1"}

NextRead ==
  \/ \E m \in mealPlans, r \in DOMAIN recipes, s \in ServingsArgs :
        createMealPlanEntry(m, r, s)
  \/ \E p \in Readers, m \in PlanArgs, n \in Names : GenCall(p, m, n)
  \/ \E p \in Readers : GenCheckPlan(p)
  \/ \E p \in Readers : GenSelectData(p)
  \/ \E p \in Readers : GenInsertList(p)
  \/ \E p \in Readers : GenInsertItems(p)
  \/ \E p \in Readers : GenStoreFailure(p)
  \/ getShoppingLists
  \/ \E id \in 1..nextListId : DetailsSelectList(id)
  \/ DetailsSelectItems

SpecRead == Init /\ [][NextRead]_vars


\* ----------------------------------------------------- createShoppingList
\* a JS number that is not a whole number of hundredths: the fraction
\* num / den of hundredths, in lowest terms with den > 0
Abs(n) == IF n < 0 THEN -n ELSE n

RECURSIVE Gcd(_, _)
Gcd(a, b) == IF b = 0 THEN a ELSE Gcd(b, a % b)

Rat(n, d) ==
  LET g == Gcd(Abs(n), Abs(d))
      sg == IF d < 0 THEN -1 ELSE 1
  IN [num |-> sg * (n \div g), den |-> sg * (d \div g)]

RatAdd(a, b) == Rat(a.num * b.den + b.num * a.den, a.den * b.den)
RatTimes(q, r) == Rat(q * r.num, r.den)

\* x || 1 for a nullable number x: 1 when x is null or 0, x otherwise
OrOne(x) == IF IsNull(x) \/ Val(x) = 0 THEN 1 ELSE Val(x)

\* if (x) for a nullable number x
Truthy(x) == ~IsNull(x) /\ Val(x) # 0

\* servingMultiplier = item.entry_servings / (item.recipe_servings || 1)
ServingMultiplier(item) == Rat(item.entry_servings, OrOne(item.recipe_servings))

\* adjustedQuantity = item.recipe_quantity * servingMultiplier
AdjustedQuantity(item) == RatTimes(item.recipe_quantity, ServingMultiplier(item))

\* the digits after the decimal point cut off instead of rounded
ToFixed2_Truncate(r) ==
  LET h == Abs(r.num) \div r.den
  IN (IF r.num < 0 THEN <<"-">> ELSE <<>>)
       \o Digits(h \div QUnit) \o <<".", DigitChar((h % QUnit) \div 10), DigitChar(h % 10)>>

\* x.toFixed(2): the sign, then the magnitude rounded to the nearest
\* hundredth (a tie goes to the larger magnitude) with exactly two decimals
ToFixed2(r) ==
  LET h == (2 * Abs(r.num) + r.den) \div (2 * r.den)
  IN (IF r.num < 0 THEN <<"-">> ELSE <<>>)
       \o Digits(h \div QUnit) \o <<".", DigitChar((h % QUnit) \div 10), DigitChar(h % 10)>>

\* parseFloat of a string with an optional sign, in hundredths
ParseSignedFloat(s) ==
  IF s # <<>> /\ Head(s) = "-" THEN 0 - ParseFloat(Tail(s)) ELSE ParseFloat(s)

\* meal_plan_entries INNER JOIN recipes INNER JOIN recipe_ingredients INNER
\* JOIN ingredients, for one entry e: one row per line of e's recipe
RECURSIVE PopulateLines(_, _)
PopulateLines(e, k) ==
  IF k > Len(recipeIngredients) THEN <<>>
  ELSE LET ri == recipeIngredients[k]
       IN IF /\ e.recipe_id \in DOMAIN recipes
             /\ ri.recipe_id = e.recipe_id
             /\ ri.ingredient_id \in DOMAIN ingredients
          THEN <<[entry_servings |-> e.servings,
                  recipe_servings |-> recipes[e.recipe_id].servings,
                  ingredient_id |-> ri.ingredient_id,
                  ingredient_name |-> ingredients[ri.ingredient_id].name,
                  ingredient_category |-> ingredients[ri.ingredient_id].category,
                  recipe_quantity |-> ri.quantity,
                  recipe_unit |-> ri.unit]>>
               \o PopulateLines(e, k + 1)
          ELSE PopulateLines(e, k + 1)

\* mealPlanData of populateShoppingListFromMealPlan, in scan order
RECURSIVE PopulateData(_, _)
PopulateData(mealPlanId, i) ==
  IF i > Len(mealPlanEntries) THEN <<>>
  ELSE IF mealPlanEntries[i].meal_plan_id = mealPlanId
       THEN PopulateLines(mealPlanEntries[i], 1) \o PopulateData(mealPlanId, i + 1)
       ELSE PopulateData(mealPlanId, i + 1)

\* ingredientMap.has(item.ingredient_id): the index of the id, 0 when absent
IdIndex(m, ingredient_id) ==
  IF \E i \in 1..Len(m) : m[i].ingredient_id = ingredient_id
  THEN CHOOSE i \in 1..Len(m) : m[i].ingredient_id = ingredient_id
  ELSE 0

\* one iteration of the loop: the Map is keyed by ingredient_id alone, and an
\* entry keeps the unit of the first row that made it
PopulateRow(m, item) ==
  LET i == IdIndex(m, item.ingredient_id)
  IN IF i # 0
     THEN [m EXCEPT ![i].totalQuantity = RatAdd(@, AdjustedQuantity(item))]
     ELSE Append(m, [ingredient_id |-> item.ingredient_id,
                     name |-> item.ingredient_name,
                     category |-> item.ingredient_category,
                     unit |-> item.recipe_unit,
                     totalQuantity |-> AdjustedQuantity(item)])

RECURSIVE PopulateMap(_, _)
PopulateMap(rows, n) ==
  IF n = 0 THEN <<>> ELSE PopulateRow(PopulateMap(rows, n - 1), rows[n])

\* itemsToInsert: one row per Map entry; notes is not supplied
PopulatedRow(data, shoppingListId, id) ==
  [id |-> id,
   shopping_list_id |-> shoppingListId,
   ingredient_id |-> Some(data.ingredient_id),
   name |-> data.name,
   quantity |-> Some(ParseSignedFloat(ToFixed2(data.totalQuantity))),
   unit |-> Some(data.unit),
   category |-> data.category,
   is_purchased |-> FALSE,
   notes |-> Null]

ItemsToInsert(m, shoppingListId, firstId) ==
  {PopulatedRow(m[i], shoppingListId, firstId + i - 1) : i \in 1..Len(m)}

NotFoundOrNoEntries(id) == [kind |-> "NotFoundOrNoEntries", id |-> id]
ForeignKeyViolation(id) == [kind |-> "ForeignKeyViolation", id |-> id]

\* meal_plan_id a caller may pass: null, 0, a plan, or 9 matching no plan
ListPlanArgs == {Null, Some(0), Some(1), Some(2), Some(9)}

\* the call: with a truthy meal_plan_id the entries are selected first,
\* otherwise the insert is the first statement
CslCall(input) ==
  /\ csl.pc = "idle"
  /\ csl' = [csl EXCEPT !.pc = IF Truthy(input.meal_plan_id) THEN "checkEntries" ELSE "insertList",
                        !.input = input]
  /\ UNCHANGED <<tables, store, gen, reader, aside, cooking, last, supplied>>

\* the entries check left out
NoEntries_Never(mealPlanId) == FALSE

\* mealPlanEntries.length === 0 for the entries with that meal_plan_id
NoEntries(mealPlanId) ==
  \A i \in 1..Len(mealPlanEntries) : mealPlanEntries[i].meal_plan_id # mealPlanId

\* select the entries of the plan, throw when there is none
CslCheckEntries ==
  /\ csl.pc = "checkEntries"
  /\ csl' = IF NoEntries(Val(csl.input.meal_plan_id))
            THEN [csl EXCEPT !.pc = "failed",
                             !.error = NotFoundOrNoEntries(Val(csl.input.meal_plan_id))]
            ELSE [csl EXCEPT !.pc = "insertList"]
  /\ UNCHANGED <<tables, store, gen, reader, aside, cooking, last, supplied>>

\* insert into shopping_lists ... returning; meal_plan_id references
\* meal_plans, so an id matching no plan makes the insert reject
CslInsertList ==
  /\ csl.pc = "insertList"
  /\ IF ~IsNull(csl.input.meal_plan_id) /\ Val(csl.input.meal_plan_id) \notin mealPlans
     THEN /\ csl' = [csl EXCEPT !.pc = "failed",
                                !.error = ForeignKeyViolation(Val(csl.input.meal_plan_id))]
          /\ UNCHANGED <<shoppingLists, nextListId>>
     ELSE LET row == [id |-> nextListId, name |-> csl.input.name,
                      meal_plan_id |-> csl.input.meal_plan_id]
          IN /\ shoppingLists' = shoppingLists \cup {row}
             /\ nextListId' = nextListId + 1
             /\ csl' = [csl EXCEPT !.shoppingList = Some(row),
                                   !.pc = IF Truthy(csl.input.meal_plan_id)
                                          THEN "populate" ELSE "done"]
  /\ UNCHANGED <<tables, shoppingListItems, nextItemId, gen, reader, aside, cooking, last, supplied>>

\* populateShoppingListFromMealPlan: the join query and the loop after it
CslPopulate ==
  /\ csl.pc = "populate"
  /\ LET mealPlanData == PopulateData(Val(csl.input.meal_plan_id), 1)
         m == PopulateMap(mealPlanData, Len(mealPlanData))
     IN csl' = [csl EXCEPT !.ingredientMap = m,
                           !.seen = Len(mealPlanEntries),
                           !.pc = IF Len(m) > 0 THEN "insertItems" ELSE "done"]
  /\ UNCHANGED <<tables, store, gen, reader, aside, cooking, last, supplied>>

\* insert into shopping_list_items values (itemsToInsert), then return
CslInsertItems ==
  /\ csl.pc = "insertItems"
  /\ shoppingListItems' =
       InsertItems(shoppingListItems,
                   ItemsToInsert(csl.ingredientMap, Val(csl.shoppingList).id, nextItemId))
  /\ nextItemId' = nextItemId + Len(csl.ingredientMap)
  /\ csl' = [csl EXCEPT !.pc = "done"]
  /\ UNCHANGED <<tables, shoppingLists, nextListId, gen, reader, aside, cooking, last, supplied>>

\* ------------------------------------------------ createShoppingListItem
MaxManual == 1

ShoppingListNotFound(id) == [kind |-> "ShoppingListNotFound", id |-> id]
IngredientNotFound(id) == [kind |-> "IngredientNotFound", id |-> id]

\* the items a caller adds by hand
ManualNames == {"Soap"}
ManualItems == {it \in shoppingListItems : it.name \in ManualNames}

\* ingredient_id of a manual item: none, Flour, or an id matching no ingredient
IngredientArgs == {Null, Some(1), Some(7)}

\* the row inserted as already purchased
ManualRow_Purchased(input, id) ==
  [id |-> id,
   shopping_list_id |-> input.shopping_list_id,
   ingredient_id |-> input.ingredient_id,
   name |-> input.name,
   quantity |-> input.quantity,
   unit |-> input.unit,
   category |-> input.category,
   is_purchased |-> TRUE,
   notes |-> input.notes]

\* the values inserted: is_purchased false, the rest from the input
ManualRow(input, id) ==
  [id |-> id,
   shopping_list_id |-> input.shopping_list_id,
   ingredient_id |-> input.ingredient_id,
   name |-> input.name,
   quantity |-> input.quantity,
   unit |-> input.unit,
   category |-> input.category,
   is_purchased |-> FALSE,
   notes |-> input.notes]

\* rejects unless the list and (when given) the ingredient exist, then inserts
\* one row; no handler deletes a list or an ingredient, so the two lookups
\* and the insert are taken as one step
createShoppingListItem(input) ==
  /\ Cardinality(ManualItems) < MaxManual
  /\ IF \A l \in shoppingLists : l.id # input.shopping_list_id
     THEN /\ last' = [op |-> "createShoppingListItem", id |-> 0, outcome |-> "error",
                      error |-> ShoppingListNotFound(input.shopping_list_id)]
          /\ UNCHANGED <<shoppingListItems, nextItemId>>
     ELSE IF ~IsNull(input.ingredient_id) /\ Val(input.ingredient_id) \notin DOMAIN ingredients
     THEN /\ last' = [op |-> "createShoppingListItem", id |-> 0, outcome |-> "error",
                      error |-> IngredientNotFound(Val(input.ingredient_id))]
          /\ UNCHANGED <<shoppingListItems, nextItemId>>
     ELSE LET row == ManualRow(input, nextItemId)
          IN /\ shoppingListItems' = InsertItems(shoppingListItems, {row})
             /\ nextItemId' = nextItemId + 1
             /\ last' = [op |-> "createShoppingListItem", id |-> row.id, outcome |-> "row",
                         error |-> NoError]
  /\ UNCHANGED <<tables, shoppingLists, nextListId, gen, reader, aside, csl, cooking, supplied>>

\* ------------------------------------------------ updateShoppingListItem
\* the inputs of the handler: each optional field is left out or given, and
\* a given quantity or notes may be null; at least one field is given
UpdateInputs(ids) ==
  {in \in [id : ids,
           is_purchased : {Undefined, Given(TRUE), Given(FALSE)},
           quantity : {Undefined, Given(Null), Given(Some(0))},
           notes : {Undefined, Given(Null), Given(Some("x"))}] :
     IsGiven(in.is_purchased) \/ IsGiven(in.quantity) \/ IsGiven(in.notes)}

\* a falsy quantity (null or 0) taken as not given
UpdateData_TruthyQuantity(input) ==
  [is_purchased |-> input.is_purchased,
   quantity |-> IF input.quantity \in {Given(Null), Given(Some(0))}
                THEN Undefined ELSE input.quantity,
   notes |-> input.notes]

\* updateData: the fields of the input that are not undefined
UpdateData(input) ==
  [is_purchased |-> IF input.is_purchased # Undefined THEN input.is_purchased ELSE Undefined,
   quantity |-> IF input.quantity # Undefined THEN input.quantity ELSE Undefined,
   notes |-> IF input.notes # Undefined THEN input.notes ELSE Undefined]

\* SET of the update statement: the columns named in updateData get its
\* values, the others keep theirs
SetItem(row, updateData) ==
  [row EXCEPT !.is_purchased = IF IsGiven(updateData.is_purchased)
                               THEN Arg(updateData.is_purchased) ELSE @,
              !.quantity = IF IsGiven(updateData.quantity) THEN Arg(updateData.quantity) ELSE @,
              !.notes = IF IsGiven(updateData.notes) THEN Arg(updateData.notes) ELSE @]

\* the rows of every id when none has the id asked for
WhereId_ElseAll(table, id) ==
  IF \E r \in table : r.id = id THEN {r \in table : r.id = id} ELSE table

\* WHERE id = ...: the rows of a table with that id
WhereId(table, id) == {r \in table : r.id = id}

\* what the latest updates supplied for an item, field by field
Merge(old, input) ==
  [is_purchased |-> IF IsGiven(input.is_purchased) THEN input.is_purchased ELSE old.is_purchased,
   quantity |-> IF IsGiven(input.quantity) THEN input.quantity ELSE old.quantity,
   notes |-> IF IsGiven(input.notes) THEN input.notes ELSE old.notes]

NothingSupplied == [is_purchased |-> Undefined, quantity |-> Undefined, notes |-> Undefined]

\* update ... set updateData where id = input.id returning: null when no row
\* was updated (result.length === 0), the updated row otherwise
updateShoppingListItem(input) ==
  /\ LET updateData == UpdateData(input)
         matched == WhereId(shoppingListItems, input.id)
         result == {SetItem(it, updateData) : it \in matched}
     IN /\ shoppingListItems' = (shoppingListItems \ matched) \cup result
        /\ last' = [op |-> "updateShoppingListItem", id |-> input.id,
                    outcome |-> IF result = {} THEN "null" ELSE "row", error |-> NoError]
        /\ supplied' =
             IF matched = {} THEN supplied
             ELSE (input.id :> Merge(IF input.id \in DOMAIN supplied
                                     THEN supplied[input.id] ELSE NothingSupplied,
                                     input))
                  @@ supplied
  /\ UNCHANGED <<tables, shoppingLists, nextListId, nextItemId, gen, reader, aside, csl, cooking>>

\* -------------------------------------- the item handlers, side by side
\* one recipe of one line; plan 1 schedules it once, plan 2 is empty
InitItems ==
  /\ mealPlans = {1, 2}
  /\ recipes = (1 :> [servings |-> Some(4)])
  /\ ingredients = (1 :> [name |-> "Flour", category |-> Some("Baking")])
  /\ recipeIngredients =
       << [id |-> 1, recipe_id |-> 1, ingredient_id |-> 1, quantity |-> 2 * QUnit, unit |-> Cup] >>
  /\ mealPlanEntries = <<[id |-> 1, meal_plan_id |-> 1, recipe_id |-> 1, servings |-> 2]>>
  /\ InitStore

\* the updates that tick an item off or on again
PurchaseInputs(ids) ==
  {in \in UpdateInputs(ids) :
     in.is_purchased # Undefined /\ in.quantity = Undefined /\ in.notes = Undefined}

\* what a caller of createShoppingListItem passes
ManualInputs(listIds) ==
  [shopping_list_id : listIds,
   ingredient_id : IngredientArgs,
   name : ManualNames,
   quantity : {Null},
   unit : {Null},
   category : {Null},
   notes : {Some("x")}]

\* one generator invocation, one createShoppingList invocation, manual
\* items and item updates
NextItems ==
  \/ \E p \in Readers, m \in PlanArgs, n \in Names : GenCall(p, m, n)
  \/ \E p \in Readers : GenCheckPlan(p)
  \/ \E p \in Readers : GenSelectData(p)
  \/ \E p \in Readers : GenInsertList(p)
  \/ \E p \in Readers : GenInsertItems(p)
  \/ \E p \in Readers : GenStoreFailure(p)
  \/ \E m \in ListPlanArgs, n \in Names : CslCall([name |-> n, meal_plan_id |-> m])
  \/ CslCheckEntries
  \/ CslInsertList
  \/ CslPopulate
  \/ CslInsertItems
  \/ \E input \in ManualInputs(1..nextListId) : createShoppingListItem(input)
  \/ \E input \in PurchaseInputs(1..nextItemId) : updateShoppingListItem(input)

SpecItems == InitItems /\ [][NextItems]_vars

\* the updates a shopper makes: tick an item off, or change its quantity
\* and notes
ShopperInputs(ids) ==
  {in \in UpdateInputs(ids) :
     \/ in.is_purchased = Given(TRUE) /\ in.quantity = Undefined /\ in.notes = Undefined
     \/ in.is_purchased = Undefined /\ in.quantity = Given(Some(0)) /\ in.notes = Given(Some("x"))}

\* two generator invocations and item updates
NextFrame ==
  \/ \E p \in Procs, m \in PlanArgs, n \in Names : GenCall(p, m, n)
  \/ \E p \in Procs : GenCheckPlan(p)
  \/ \E p \in Procs : GenSelectData(p)
  \/ \E p \in Procs : GenInsertList(p)
  \/ \E p \in Procs : GenInsertItems(p)
  \/ \E p \in Procs : GenStoreFailure(p)
  \/ \E input \in ShopperInputs(1..nextItemId) : updateShoppingListItem(input)

SpecFrame == InitItems /\ [][NextFrame]_vars

\* ------------------------------------- createShoppingList and its plans
\* the catalogue with two more recipes: createRecipe and updateRecipe take
\* any integer as servings, so a recipe may declare 0 or a negative count
InitCreate ==
  /\ mealPlans = {1, 2}
  /\ recipes = (1 :> [servings |-> Some(4)]) @@ (2 :> [servings |-> Null])
            @@ (3 :> [servings |-> Some(0)]) @@ (4 :> [servings |-> Some(0 - 2)])
  /\ ingredients = (1 :> [name |-> "Flour", category |-> Some("Baking")])
                @@ (2 :> [name |-> "Milk", category |-> Some("Dairy")])
                @@ (3 :> [name |-> "Eggs", category |-> Null])
  /\ recipeIngredients =
       << [id |-> 1, recipe_id |-> 1, ingredient_id |-> 1, quantity |-> 2 * QUnit, unit |-> Cup],
          [id |-> 2, recipe_id |-> 1, ingredient_id |-> 2, quantity |-> 25, unit |-> Cup],
          [id |-> 3, recipe_id |-> 2, ingredient_id |-> 1, quantity |-> 3 * QUnit, unit |-> Cup],
          [id |-> 4, recipe_id |-> 2, ingredient_id |-> 2, quantity |-> 4 * QUnit, unit |-> Tbsp],
          [id |-> 5, recipe_id |-> 2, ingredient_id |-> 3, quantity |-> 1 * QUnit, unit |-> Piece],
          [id |-> 6, recipe_id |-> 3, ingredient_id |-> 3, quantity |-> 1 * QUnit, unit |-> Piece],
          [id |-> 7, recipe_id |-> 4, ingredient_id |-> 1, quantity |-> 1 * QUnit, unit |-> Cup] >>
  /\ mealPlanEntries = <<>>
  /\ InitStore

\* one createShoppingList invocation while entries are being scheduled
NextCreate ==
  \/ \E m \in mealPlans, r \in DOMAIN recipes, s \in ServingsArgs :
        createMealPlanEntry(m, r, s)
  \/ \E m \in ListPlanArgs, n \in Names : CslCall([name |-> n, meal_plan_id |-> m])
  \/ CslCheckEntries
  \/ CslInsertList
  \/ CslPopulate
  \/ CslInsertItems

SpecCreate == InitCreate /\ [][NextCreate]_vars

\* ------------------------------------------------------ cooking sessions
MaxSessions == 1

\* new Date(): some time; the model keeps only that the column is set
Now == "now"

\* rejects unless the recipe exists, then inserts a session at step 0; no
\* handler deletes a recipe, so the lookup and the insert are one step
startCookingSession(recipe_id) ==
  /\ Cardinality(cookingSessions) < MaxSessions
  /\ IF recipe_id \notin DOMAIN recipes
     THEN /\ last' = [op |-> "startCookingSession", id |-> 0, outcome |-> "error",
                      error |-> RecipeNotFound(recipe_id)]
          /\ UNCHANGED <<cookingSessions, nextSessionId>>
     ELSE /\ cookingSessions' = cookingSessions \cup
               {[id |-> nextSessionId, recipe_id |-> recipe_id, started_at |-> Now,
                 completed_at |-> Null, current_step |-> 0, notes |-> Null, rating |-> Null]}
          /\ nextSessionId' = nextSessionId + 1
          /\ last' = [op |-> "startCookingSession", id |-> nextSessionId, outcome |-> "row",
                      error |-> NoError]
  /\ UNCHANGED <<tables, store, gen, reader, aside, csl, supplied>>

\* the inputs of updateCookingSession: each optional field is left out or
\* given, at least one of them is given; the schema puts no range on rating
SessionInputs(ids) ==
  {in \in [id : ids,
           current_step : {Undefined, Given(2)},
           notes : {Undefined, Given(Null), Given(Some("n"))},
           rating : {Undefined, Given(Null), Given(Some(7))}] :
     IsGiven(in.current_step) \/ IsGiven(in.notes) \/ IsGiven(in.rating)}

\* updateData that marks the session completed whatever is given
SessionUpdateData_AlwaysCompletes(input) ==
  [current_step |-> IF input.current_step # Undefined THEN input.current_step ELSE Undefined,
   notes |-> IF input.notes # Undefined THEN input.notes ELSE Undefined,
   rating |-> IF input.rating # Undefined THEN input.rating ELSE Undefined,
   completed_at |-> Given(Some(Now))]

\* updateData of updateCookingSession: the given fields, and completed_at
\* with any given rating (updated_at is not a column of cooking_sessions)
SessionUpdateData(input) ==
  [current_step |-> IF input.current_step # Undefined THEN input.current_step ELSE Undefined,
   notes |-> IF input.notes # Undefined THEN input.notes ELSE Undefined,
   rating |-> IF input.rating # Undefined THEN input.rating ELSE Undefined,
   completed_at |-> IF input.rating # Undefined THEN Given(Some(Now)) ELSE Undefined]

\* updateData that takes every given rating, in range or not
CompleteUpdateData_AnyRating(rating) ==
  [current_step |-> Undefined,
   notes |-> Undefined,
   rating |-> IF rating # Undefined THEN Given(Some(Arg(rating))) ELSE Undefined,
   completed_at |-> Given(Some(Now))]

\* updateData of completeCookingSession: completed_at, and the rating when
\* it is given and within 1..5
CompleteUpdateData(rating) ==
  [current_step |-> Undefined,
   notes |-> Undefined,
   rating |-> IF rating # Undefined /\ Arg(rating) >= 1 /\ Arg(rating) <= 5
              THEN Given(Some(Arg(rating))) ELSE Undefined,
   completed_at |-> Given(Some(Now))]

\* a SET that leaves completed_at out
SetSession_KeepsCompletedAt(row, updateData) ==
  [row EXCEPT !.current_step = IF IsGiven(updateData.current_step)
                               THEN Arg(updateData.current_step) ELSE @,
              !.notes = IF IsGiven(updateData.notes) THEN Arg(updateData.notes) ELSE @,
              !.rating = IF IsGiven(updateData.rating) THEN Arg(updateData.rating) ELSE @]

\* SET of the update statement on cooking_sessions
SetSession(row, updateData) ==
  [row EXCEPT !.current_step = IF IsGiven(updateData.current_step)
                               THEN Arg(updateData.current_step) ELSE @,
              !.notes = IF IsGiven(updateData.notes) THEN Arg(updateData.notes) ELSE @,
              !.rating = IF IsGiven(updateData.rating) THEN Arg(updateData.rating) ELSE @,
              !.completed_at = IF IsGiven(updateData.completed_at)
                               THEN Arg(updateData.completed_at) ELSE @]

\* update cooking_sessions set updateData where id = ... returning: null
\* when no row was updated, the updated row otherwise
UpdateSession(op, id, updateData) ==
  LET matched == WhereId(cookingSessions, id)
      result == {SetSession(r, updateData) : r \in matched}
  IN /\ cookingSessions' = (cookingSessions \ matched) \cup result
     /\ last' = [op |-> op, id |-> id,
                 outcome |-> IF result = {} THEN "null" ELSE "row", error |-> NoError]
     /\ UNCHANGED <<tables, store, gen, reader, aside, csl, nextSessionId, supplied>>

updateCookingSession(input) ==
  UpdateSession("updateCookingSession", input.id, SessionUpdateData(input))

\* the ratings a caller may pass to completeCookingSession, or none
RatingArgs == {Undefined, Given(0), Given(3), Given(5), Given(6)}

completeCookingSession(id, rating) ==
  UpdateSession("completeCookingSession", id, CompleteUpdateData(rating))

\* ----------------------------------------------------------- updateRecipe
\* the servings a caller may pass to updateRecipe, or none
RecipeServingsArgs == {Undefined, Given(Null), Given(Some(2))}

\* select the recipe, return null when there is none; otherwise update the
\* given fields (of which the model keeps servings) and return the row
updateRecipe(input) ==
  /\ IF input.id \notin DOMAIN recipes
     THEN /\ last' = [op |-> "updateRecipe", id |-> input.id, outcome |-> "null",
                      error |-> NoError]
          /\ UNCHANGED recipes
     ELSE /\ recipes' = [recipes EXCEPT ![input.id].servings =
                           IF input.servings # Undefined THEN Arg(input.servings) ELSE @]
          /\ last' = [op |-> "updateRecipe", id |-> input.id, outcome |-> "row",
                      error |-> NoError]
  /\ UNCHANGED <<mealPlans, recipeIngredients, ingredients, mealPlanEntries, store, gen,
                 reader, aside, csl, cooking, supplied>>

\* --------------------------------------- the handlers that update by id
\* ids a caller may pass for a recipe; 9 matches none
RecipeArgs == {1, 9}

NextById ==
  \/ \E n \in Names : CslCall([name |-> n, meal_plan_id |-> Some(1)])
  \/ CslCheckEntries
  \/ CslInsertList
  \/ CslPopulate
  \/ CslInsertItems
  \/ \E input \in PurchaseInputs(1..nextItemId) : updateShoppingListItem(input)
  \/ \E r \in RecipeArgs : startCookingSession(r)
  \/ \E input \in SessionInputs(1..nextSessionId) : updateCookingSession(input)
  \/ \E id \in 1..nextSessionId, rating \in RatingArgs : completeCookingSession(id, rating)
  \/ \E id \in RecipeArgs, sv \in RecipeServingsArgs : updateRecipe([id |-> id, servings |-> sv])

SpecById == InitItems /\ [][NextById]_vars

\* ------------------------------------------ updates of one list's items
\* plan 1 schedules the two-line recipe 1 once
InitUpdate ==
  /\ InitCatalogue
  /\ mealPlanEntries = <<[id |-> 1, meal_plan_id |-> 1, recipe_id |-> 1, servings |-> 2]>>
  /\ InitStore

NextUpdate ==
  \/ \E n \in Names : CslCall([name |-> n, meal_plan_id |-> Some(1)])
  \/ CslCheckEntries
  \/ CslInsertList
  \/ CslPopulate
  \/ CslInsertItems
  \/ \E input \in UpdateInputs(1..nextItemId) : updateShoppingListItem(input)

SpecUpdate == InitUpdate /\ [][NextUpdate]_vars

\* --------------------------------------------- the life of a cooking session
\* sessions are started for a recipe, updated and completed, in any order
\* the inputs of updateCookingSession as CookingMode and the tests send
\* them: a step forward or back, notes, a rating inside or outside 1..5
CookingInputs(ids) ==
  {in \in [id : ids,
           current_step : {Undefined, Given(1), Given(2)},
           notes : {Undefined, Given(Null), Given(Some("n"))},
           rating : {Undefined, Given(Null), Given(Some(4)), Given(Some(7))}] :
     IsGiven(in.current_step) \/ IsGiven(in.notes) \/ IsGiven(in.rating)}

NextCooking ==
  \/ \E r \in RecipeArgs : startCookingSession(r)
  \/ \E input \in CookingInputs(1..nextSessionId) : updateCookingSession(input)
  \/ \E id \in 1..nextSessionId, rating \in RatingArgs : completeCookingSession(id, rating)

SpecCooking == InitItems /\ [][NextCooking]_vars

\* ------------------------------------------- the entries of the meal plans
\* ids a caller may pass as recipe_id of an entry; 9 matches no recipe
EntryRecipeArgs == {1, 2, 9}

\* createMealPlanEntry called with references that exist or not
NextEntry ==
  \/ \E m \in PlanArgs, r \in EntryRecipeArgs, s \in ServingsArgs :
        createMealPlanEntry(m, r, s)
  \/ \E m \in PlanArgs, r \in EntryRecipeArgs : createMealPlanEntryRejects(m, r)

SpecEntry == Init /\ [][NextEntry]_vars

\* ------------------------------------------------ the keys of the group Map
\* the sequences over S of at most n elements, the empty one included: the
\* strings, row lists and step lists a handler or component is given
RECURSIVE SeqsUpTo(_, _)
SeqsUpTo(S, n) ==
  IF n = 0 THEN {<<>>}
  ELSE LET shorter == SeqsUpTo(S, n - 1)
       IN shorter \cup {Append(q, x) : q \in shorter, x \in S}

\* characters of a unit: letters, a digit an id may end in, the separator
UnitChars == {"-", "3", "o", "z"}

\* ingredient ids (serial, so positive) of which one is a prefix of the other
KeyIds == {12, 123}

\* the (ingredient_id, unit) of a joined row
KeyPairs == [ingredient_id : KeyIds, unit : SeqsUpTo(UnitChars, MaxUnitLen)]

\* the keys the loop builds for two rows a and b
BuildKeys(a, b) ==
  /\ calc' = [op |-> "MapKey", a |-> a, b |-> b,
              keyA |-> MapKey(a.ingredient_id, a.unit),
              keyB |-> MapKey(b.ingredient_id, b.unit)]
  /\ UNCHANGED <<tables, store, gen, reader, csl, cooking, last, supplied, cm, cr>>

\* one pair of rows is looked at
NextKey ==
  /\ calc.op = "none"
  /\ \E a \in KeyPairs, b \in KeyPairs : BuildKeys(a, b)

SpecKey == Init /\ [][NextKey]_vars

\* ------------------------------------------- the two accumulations, exactly
\* Both loops run over the same joined rows of one ingredient.  A quantity is
\* an exact fraction of hundredths here, so that 0.125 (12.5 hundredths) and
\* every sum of contributions is held without rounding.
RatMul(a, b) == Rat(a.num * b.num, a.den * b.den)

\* line quantities 0.125, 0.25 and 2
QuantityArgs == {Rat(25, 2), Rat(25, 1), Rat(2 * QUnit, 1)}

\* what a recipe declares as servings
BaseArgs == {Null, Some(4)}

RoundRows == [recipe_quantity : QuantityArgs, entry_servings : ServingsArgs,
              recipe_servings : BaseArgs]

\* generator: scaledQuantity = parseFloat(entry.quantity.toString()) * entry.servings
ExactScaledQuantity(row) == RatTimes(row.entry_servings, row.recipe_quantity)

\* the contribution rounded to two decimals before it is added
ExactAdjustedQuantity_Rounded(row) ==
  Rat(ParseSignedFloat(ToFixed2(RatMul(row.recipe_quantity,
        Rat(row.entry_servings, OrOne(row.recipe_servings))))), 1)

\* createShoppingList: adjustedQuantity = item.recipe_quantity *
\* (item.entry_servings / (item.recipe_servings || 1))
ExactAdjustedQuantity(row) ==
  RatMul(row.recipe_quantity, Rat(row.entry_servings, OrOne(row.recipe_servings)))

\* the rows are read; both Maps are empty
RoundCall(rows) ==
  /\ calc.op = "none"
  /\ calc' = [op |-> "accumulating", rows |-> rows, n |-> 0,
              total_quantity |-> Rat(0, 1), totalQuantity |-> Rat(0, 1),
              generated |-> Null, created |-> Null]
  /\ UNCHANGED <<tables, store, gen, reader, csl, cooking, last, supplied, cm, cr>>

\* one iteration of each loop: the row's contribution is added to the total
RoundAccumulate ==
  /\ calc.op = "accumulating"
  /\ calc.n < Len(calc.rows)
  /\ LET row == calc.rows[calc.n + 1]
     IN calc' = [calc EXCEPT
                   !.n = @ + 1,
                   !.total_quantity = RatAdd(@, ExactScaledQuantity(row)),
                   !.totalQuantity = RatAdd(@, ExactAdjustedQuantity(row))]
  /\ UNCHANGED <<tables, store, gen, reader, csl, cooking, last, supplied, cm, cr>>

\* the item rows: the generator stores total_quantity as it is,
\* createShoppingList stores parseFloat(totalQuantity.toFixed(2))
RoundStore ==
  /\ calc.op = "accumulating"
  /\ calc.n = Len(calc.rows)
  /\ calc.n > 0
  /\ calc' = [calc EXCEPT
                !.op = "stored",
                !.generated = Some(calc.total_quantity),
                !.created = Some(ParseSignedFloat(ToFixed2(calc.totalQuantity)))]
  /\ UNCHANGED <<tables, store, gen, reader, csl, cooking, last, supplied, cm, cr>>

NextRound ==
  \/ calc.op = "none" /\ \E rows \in SeqsUpTo(RoundRows, MaxRows) : RoundCall(rows)
  \/ RoundAccumulate
  \/ RoundStore

SpecRound == Init /\ [][NextRound]_vars

\* ------------------------------------------------------------- CookingMode
\* recipe.instructions, by what JSON.parse makes of the string: a JSON array
\* (of steps), other valid JSON (a number, a quoted string), or text that is
\* not JSON, given as its lines, of which some are blank
InstructionArgs ==
  [kind : {"array"}, parts : SeqsUpTo({"Mix", "Bake"}, MaxSteps)]
    \cup [kind : {"json"}, parts : {<<"5">>}]
    \cup [kind : {"text"}, parts : SeqsUpTo({"Mix", "Bake", " "}, MaxSteps)]

\* step.trim().length > 0
NotBlank(line) == line \notin {"", " "}

\* parseInstructions: the array itself, [instructions] for other JSON, the
\* non-blank lines when JSON.parse throws
parseInstructions(instructions) ==
  IF instructions.kind = "array" THEN instructions.parts
  ELSE IF instructions.kind = "json" THEN <<instructions.parts[1]>>
  ELSE SelectSeq(instructions.parts, NotBlank)

\* the component is rendered for a recipe and startSession has returned:
\* currentStep is the new session's current_step, which is 0; cookingSession
\* stays null when the call failed
CookingModeMount(instructions, started) ==
  /\ ~cm.mounted
  /\ cm' = [cm EXCEPT !.mounted = TRUE,
                      !.instructions = instructions,
                      !.steps = parseInstructions(instructions),
                      !.currentStep = 0,
                      !.cookingSession = started]
  /\ UNCHANGED <<tables, store, gen, reader, csl, cooking, last, supplied, calc, cr>>

Min(a, b) == IF a < b THEN a ELSE b
Max(a, b) == IF a > b THEN a ELSE b

\* updateSession(step): sends current_step: step unless cookingSession is null
UpdateSessionSent(step) == IF cm.cookingSession THEN Some(step) ELSE cm.sent

\* the enabled flag read, the step moved without the clamp
GoTo(newStep) ==
  /\ cm' = [cm EXCEPT !.currentStep = newStep, !.sent = UpdateSessionSent(newStep)]
  /\ UNCHANGED <<tables, store, gen, reader, csl, cooking, last, supplied, calc, cr>>

\* the Next button is rendered unless currentStep === steps.length - 1
goToNextStep ==
  /\ cm.mounted
  /\ cm.currentStep # Len(cm.steps) - 1
  /\ GoTo(Min(cm.currentStep + 1, Len(cm.steps) - 1))

\* the Previous button is disabled when currentStep === 0
goToPreviousStep ==
  /\ cm.mounted
  /\ cm.currentStep # 0
  /\ GoTo(Max(cm.currentStep - 1, 0))

\* a click on the row of steps[index] in the overview
StepOverviewClick(index) ==
  /\ cm.mounted
  /\ index \in 0..(Len(cm.steps) - 1)
  /\ GoTo(index)

NextSteps ==
  \/ \E instructions \in InstructionArgs, started \in BOOLEAN :
        CookingModeMount(instructions, started)
  \/ goToNextStep
  \/ goToPreviousStep
  \/ \E index \in 0..(MaxSteps - 1) : StepOverviewClick(index)

SpecSteps == Init /\ [][NextSteps]_vars

\* ------------------------------------------------- the timer of CookingMode
\* the minutes of two of the timer buttons
TimerMinutes == {1, 3}

\* a click on a timer button; at most MaxClicks of them are looked at
TimerClick(timer, isTimerRunning) ==
  /\ cm.mounted
  /\ cm.clicks < MaxClicks
  /\ cm' = [cm EXCEPT !.timer = timer, !.isTimerRunning = isTimerRunning,
                      !.clicks = @ + 1]
  /\ UNCHANGED <<tables, store, gen, reader, csl, cooking, last, supplied, calc, cr>>

startTimer(minutes) == TimerClick(minutes * 60, TRUE)

\* the button is disabled while timer === 0
toggleTimer ==
  /\ cm.timer # 0
  /\ TimerClick(cm.timer, ~cm.isTimerRunning)

resetTimer == TimerClick(0, FALSE)

\* the branch that ends the timer never taken
TimerFinished_Never(prev) == FALSE

\* if (prev <= 1): the tick that ends the timer
TimerFinished(prev) == prev <= 1

\* what the updater returns for prev: 0 at the end, prev - 1 before
Countdown(prev) == IF TimerFinished(prev) THEN 0 ELSE prev - 1

\* the interval of the effect fires: it exists while isTimerRunning and
\* timer > 0, and the updater stops the timer when it reaches 0
Tick ==
  /\ cm.mounted
  /\ cm.isTimerRunning
  /\ cm.timer > 0
  /\ cm' = [cm EXCEPT !.timer = Countdown(cm.timer),
                      !.isTimerRunning = IF TimerFinished(cm.timer) THEN FALSE ELSE @]
  /\ UNCHANGED <<tables, store, gen, reader, csl, cooking, last, supplied, calc, cr>>

\* a recipe with one step is cooked
OneStep == [kind |-> "array", parts |-> <<"Mix">>]

NextTimer ==
  \/ CookingModeMount(OneStep, TRUE)
  \/ \E minutes \in TimerMinutes : startTimer(minutes)
  \/ toggleTimer
  \/ resetTimer
  \/ Tick

SpecTimer == Init /\ [][NextTimer]_vars

\* setInterval fires every second as long as the effect keeps it
SpecTimerFair == SpecTimer /\ WF_vars(Tick)

\* ------------------------------------------------------------ createRecipe
\* an ingredient line of an input: one cup of the ingredient
Line(ingredient_id) == [ingredient_id |-> ingredient_id, quantity |-> QUnit, unit |-> Cup]

\* what a caller passes: lines of the ingredients 1 and 2, which exist, and
\* of 7, which does not
RecipeInputs ==
  [servings : {Null, Some(0), Some(2), Some(4)},
   ingredients : {<<>>, <<Line(1)>>, <<Line(1), Line(2)>>, <<Line(7)>>,
                  <<Line(1), Line(7)>>, <<Line(7), Line(1)>>}]

CrCall(input) ==
  /\ cr.pc = "idle"
  /\ cr' = [cr EXCEPT !.pc = "insertRecipe", !.input = input]
  /\ UNCHANGED <<tables, store, gen, reader, csl, cooking, last, supplied, calc, cm>>

\* insert into recipes ... returning: the row gets the next serial id
CrInsertRecipe ==
  /\ cr.pc = "insertRecipe"
  /\ recipes' = Append(recipes, [servings |-> cr.input.servings])
  /\ cr' = [cr EXCEPT !.recipe = Some(Len(recipes) + 1),
                      !.pc = IF Len(cr.input.ingredients) > 0
                             THEN "insertIngredients" ELSE "done"]
  /\ UNCHANGED <<mealPlans, recipeIngredients, ingredients, mealPlanEntries, store, gen,
                 reader, csl, cooking, last, supplied, calc, cm>>

\* the rows of the second insert, for the recipe just stored
AssociationRows(input, recipe_id) ==
  [k \in 1..Len(input.ingredients) |->
     [id |-> Len(recipeIngredients) + k,
      recipe_id |-> recipe_id,
      ingredient_id |-> input.ingredients[k].ingredient_id,
      quantity |-> input.ingredients[k].quantity,
      unit |-> input.ingredients[k].unit]]

\* insert into recipe_ingredients: one statement, so every row or none;
\* the foreign key rejects it when a row references no ingredient, and the
\* catch block rethrows
CrInsertIngredients ==
  /\ cr.pc = "insertIngredients"
  /\ LET rows == AssociationRows(cr.input, Val(cr.recipe))
         missing == {rows[k].ingredient_id : k \in DOMAIN rows} \ DOMAIN ingredients
     IN IF missing # {}
        THEN /\ cr' = [cr EXCEPT !.pc = "failed",
                         !.error = ForeignKeyViolation(CHOOSE id \in missing : TRUE)]
             /\ UNCHANGED recipeIngredients
        ELSE /\ recipeIngredients' = recipeIngredients \o rows
             /\ cr' = [cr EXCEPT !.pc = "done"]
  /\ UNCHANGED <<mealPlans, recipes, ingredients, mealPlanEntries, store, gen,
                 reader, csl, cooking, last, supplied, calc, cm>>

\* createRecipe runs while meals are scheduled
NextRecipe ==
  \/ \E input \in RecipeInputs : CrCall(input)
  \/ CrInsertRecipe
  \/ CrInsertIngredients
  \/ \E m \in mealPlans, r \in DOMAIN recipes, s \in ServingsArgs :
        createMealPlanEntry(m, r, s)

SpecRecipe == Init /\ [][NextRecipe]_vars

\* ================================================================ claims
\* what a finished invocation p read and wrote
PlanOf(p) == args[p].mealPlanId
ListOf(p) == Val(shoppingList[p])
ItemsOf(p) == {it \in shoppingListItems : it.id \in inserted[p]}

\* the items now stored for the list that invocation p created
StoredItemsOf(p) == {it \in shoppingListItems : it.shopping_list_id = ListOf(p).id}

\* the (entry, line) pairs of plan P among the first n meal_plan_entries rows:
\* entry i is scheduled in P and line k belongs to its recipe
PlanLines(P, n) ==
  {x \in (1..n) \X (1..Len(recipeIngredients)) :
     /\ mealPlanEntries[x[1]].meal_plan_id = P
     /\ recipeIngredients[x[2]].recipe_id = mealPlanEntries[x[1]].recipe_id}

\* what invocation p's join could see of its plan
LinesSeen(p) == PlanLines(PlanOf(p), seen[p])

\* those pairs of L whose line has ingredient id
IngredientLines(L, id) == {x \in L : recipeIngredients[x[2]].ingredient_id = id}

\* those pairs of L whose line has ingredient id and unit u
PairLines(L, id, u) == {x \in IngredientLines(L, id) : recipeIngredients[x[2]].unit = u}

\* the distinct (ingredient_id, unit) pairs of the lines of L
PairsOf(L) ==
  {<<recipeIngredients[x[2]].ingredient_id, recipeIngredients[x[2]].unit>> : x \in L}

\* effective_base_servings(recipe): its servings, 1 when it declares none
EffectiveBase(r) == IF IsNull(recipes[r].servings) THEN 1 ELSE Val(recipes[r].servings)

RECURSIVE Product(_)
Product(S) ==
  IF S = {} THEN 1
  ELSE LET x == CHOOSE x \in S : TRUE IN x * Product(S \ {x})

\* a common multiple of every recipe's effective base servings
BaseMultiple == Product({EffectiveBase(r) : r \in DOMAIN recipes})

\* BaseMultiple times the sum, over the (entry, line) pairs of S, of
\* entry.servings / effective_base_servings(recipe) * line.quantity
RECURSIVE RatioSumTimesBase(_)
RatioSumTimesBase(S) ==
  IF S = {} THEN 0
  ELSE LET x == CHOOSE x \in S : TRUE
       IN mealPlanEntries[x[1]].servings * recipeIngredients[x[2]].quantity
            * (BaseMultiple \div EffectiveBase(mealPlanEntries[x[1]].recipe_id))
          + RatioSumTimesBase(S \ {x})

\* C1: each item of a generated list has quantity equal to the sum, over the
\* (entry, line) pairs of the plan with the item's ingredient and unit, of
\* entry.servings / effective_base_servings(recipe) * line.quantity
C1_QuantityIsServingsRatioSum ==
  \A p \in Procs : pc[p] = "done" =>
    \A it \in ItemsOf(p) :
      Val(it.quantity) * BaseMultiple =
        RatioSumTimesBase(PairLines(LinesSeen(p), Val(it.ingredient_id), Val(it.unit)))

\* the sum of what the (entry, line) pairs of S contribute, pair by pair
RECURSIVE ScaledSum(_)
ScaledSum(S) ==
  IF S = {} THEN 0
  ELSE LET x == CHOOSE x \in S : TRUE
       IN ScaledQuantity([quantity |-> recipeIngredients[x[2]].quantity,
                          servings |-> mealPlanEntries[x[1]].servings])
          + ScaledSum(S \ {x})

\* C2: lines with the same ingredient but different units are never merged:
\* a generated list has exactly one item per distinct (ingredient_id, unit)
\* pair of its plan, and that item's quantity is what the lines of its own
\* unit contribute
C2_UnitsNeverMerged ==
  \A p \in Procs : pc[p] = "done" =>
    LET L == LinesSeen(p)
        mine == ItemsOf(p)
    IN \A pr \in PairsOf(L) :
         LET its == {it \in mine : it.ingredient_id = Some(pr[1]) /\ it.unit = Some(pr[2])}
         IN /\ Cardinality(its) = 1
            /\ \A it \in its : it.quantity = Some(ScaledSum(PairLines(L, pr[1], pr[2])))

\* a finished list holding the same ingredient in two units
C2_Witness ==
  \E p \in Procs :
    /\ pc[p] = "done"
    /\ \E a, b \in ItemsOf(p) : a.ingredient_id = b.ingredient_id /\ a.unit # b.unit

\* C3: a call whose id matches no meal plan fails with the not-found error
\* naming that id (or with the store's own failure of the lookup), the step
\* that fails writes no shopping list and no item, and the failed call
\* takes no further step
C3_MissingPlanFailsClosed ==
  [][\A p \in Procs :
       /\ (pc[p] = "checkPlan" /\ args[p].mealPlanId \notin mealPlans /\ pc'[p] # "checkPlan")
            => /\ pc'[p] = "failed"
               /\ error'[p] \in {NotFound(args[p].mealPlanId), StoreFailure}
               /\ shoppingLists' = shoppingLists
               /\ shoppingListItems' = shoppingListItems
       /\ (pc[p] = "failed" /\ error[p].kind = "NotFound")
            => /\ pc'[p] = "failed"
               /\ args[p].mealPlanId \notin mealPlans
               /\ error[p].id = args[p].mealPlanId
               /\ IsNull(shoppingList[p])
               /\ inserted[p] = {}]_vars

\* a call for the missing plan 9 has failed with the not-found error while
\* another call's list is in the store
C3_Witness ==
  \E p \in Procs :
    /\ pc[p] = "failed"
    /\ error[p] = NotFound(9)
    /\ shoppingLists # {}

\* C4: for an existing plan with zero entries the call succeeds unless the
\* store fails: the insert of the list record ends it, adds exactly one list
\* linked to the plan, returns it, and adds no item
C4_EmptyPlanGivesEmptyList ==
  [][\A p \in Procs :
       (/\ pc[p] = "insertList"
        /\ pc'[p] # "insertList"
        /\ LinesSeen(p) = {})
         => \/ pc'[p] = "failed" /\ error'[p] = StoreFailure
            \/ /\ pc'[p] = "done"
               /\ \E l \in shoppingLists' \ shoppingLists :
                    /\ shoppingLists' = shoppingLists \cup {l}
                    /\ shoppingList'[p] = Some(l)
                    /\ l.meal_plan_id = Some(PlanOf(p))
                    /\ l.name = args[p].name
                    /\ \A it \in shoppingListItems' : it.shopping_list_id # l.id
               /\ shoppingListItems' = shoppingListItems]_vars

\* a call for a plan without entries is done, its list is stored without
\* items, while the other plan has entries
C4_Witness ==
  \E p \in Procs :
    /\ pc[p] = "done"
    /\ LinesSeen(p) = {}
    /\ ListOf(p) \in shoppingLists
    /\ StoredItemsOf(p) = {}
    /\ seen[p] > 0

\* C5: generation is all-or-nothing: after a failed call, no list record of
\* that call and no item of it is in the store
C5_AllOrNothing ==
  \A p \in Procs : pc[p] = "failed" =>
    /\ IsNull(shoppingList[p]) \/ ListOf(p) \notin shoppingLists
    /\ ItemsOf(p) = {}

\* C6: a reader never observes a generated list record whose items are not
\* all present: whenever getShoppingListDetails returns the list some
\* invocation created, it returns with it every item of that invocation's Map
C6_ReaderNeverSeesPartialList ==
  observed.op = "details" =>
    \A l \in observed.lists : \A p \in Procs :
      (shoppingList[p] = Some(l) /\ pc[p] # "failed") =>
        Cardinality(observed.items) = Len(ingredientMap[p])

\* C7: lines sharing ingredient_id and unit give exactly one item: a
\* generated list has as many items as its plan has distinct
\* (ingredient_id, unit) pairs, and each item has ingredient_id set, the
\* ingredient's name and category, the unit of its pair and notes null
C7_OneItemPerPair ==
  \A p \in Procs : pc[p] = "done" =>
    LET pairs == PairsOf(LinesSeen(p))
        stored == StoredItemsOf(p)
    IN /\ Cardinality(stored) = Cardinality(pairs)
       /\ \A it \in stored :
            /\ ~IsNull(it.ingredient_id)
            /\ ~IsNull(it.unit)
            /\ <<Val(it.ingredient_id), Val(it.unit)>> \in pairs
            /\ it.name = ingredients[Val(it.ingredient_id)].name
            /\ it.category = ingredients[Val(it.ingredient_id)].category
            /\ it.notes = Null
            /\ \A ot \in stored :
                 (ot.ingredient_id = it.ingredient_id /\ ot.unit = it.unit) => ot = it

\* a finished list whose plan reaches one (ingredient_id, unit) pair through
\* lines of two different recipes scheduled by two entries
C7_Witness ==
  \E p \in Procs :
    /\ pc[p] = "done"
    /\ StoredItemsOf(p) # {}
    /\ \E pr \in PairsOf(LinesSeen(p)) :
         \E x, y \in PairLines(LinesSeen(p), pr[1], pr[2]) :
           x[1] # y[1] /\ x[2] # y[2]

\* C8: every item of a list generated from plan P refers to an ingredient of
\* the recipe of some entry of P, and its quantity holds nothing beyond what
\* the lines reached through P's entries contribute for that ingredient
C8_OnlyPlanIngredients ==
  \A p \in Procs : pc[p] = "done" =>
    LET L == LinesSeen(p)
    IN \A it \in ItemsOf(p) :
         /\ IngredientLines(L, Val(it.ingredient_id)) # {}
         /\ Val(it.quantity) <= ScaledSum(IngredientLines(L, Val(it.ingredient_id)))

\* a finished list of a plan, while some other plan schedules a recipe with
\* an ingredient this plan does not use and with one it does
C8_Witness ==
  \E p \in Procs :
    /\ pc[p] = "done"
    /\ ItemsOf(p) # {}
    /\ \E i \in 1..seen[p] :
         /\ mealPlanEntries[i].meal_plan_id # PlanOf(p)
         /\ \E k, j \in 1..Len(recipeIngredients) :
              /\ recipeIngredients[k].recipe_id = mealPlanEntries[i].recipe_id
              /\ recipeIngredients[j].recipe_id = mealPlanEntries[i].recipe_id
              /\ Some(recipeIngredients[k].ingredient_id) \notin
                   {it.ingredient_id : it \in ItemsOf(p)}
              /\ Some(recipeIngredients[j].ingredient_id) \in
                   {it.ingredient_id : it \in ItemsOf(p)}

\* the (ingredient_id, unit, quantity) triples stored for p's list
TriplesOf(p) == {<<it.ingredient_id, it.unit, it.quantity>> : it \in StoredItemsOf(p)}

\* the entries of plan P among the first n meal_plan_entries rows
PlanEntries(P, n) == {i \in 1..n : mealPlanEntries[i].meal_plan_id = P}

\* C9: two finished calls for the same plan that read the same entries of it
\* give two stored list records with different ids and the same set of
\* (ingredient_id, unit, quantity) items
C9_TwoCallsTwoEqualLists ==
  \A p, q \in Procs :
    (/\ p # q
     /\ pc[p] = "done" /\ pc[q] = "done"
     /\ PlanOf(p) = PlanOf(q)
     /\ PlanEntries(PlanOf(p), seen[p]) = PlanEntries(PlanOf(q), seen[q]))
      => /\ ListOf(p).id # ListOf(q).id
         /\ ListOf(p) \in shoppingLists /\ ListOf(q) \in shoppingLists
         /\ TriplesOf(p) = TriplesOf(q)

\* two finished calls for one plan with entries, the second begun after the
\* first one's items were stored
C9_Witness ==
  \E p, q \in Procs :
    /\ p # q
    /\ pc[p] = "done" /\ pc[q] = "done"
    /\ PlanOf(p) = PlanOf(q)
    /\ PlanEntries(PlanOf(p), seen[p]) = PlanEntries(PlanOf(q), seen[q])
    /\ Cardinality(TriplesOf(p)) >= 2
    /\ ListOf(p).id < ListOf(q).id
    /\ \A a \in inserted[p], b \in inserted[q] : a < b

\* the items a run on the lines L alone produces
SoloTriples(L) ==
  {<<Some(pr[1]), Some(pr[2]), Some(ScaledSum(PairLines(L, pr[1], pr[2])))>> : pr \in PairsOf(L)}

\* C10: however two invocations interleave, each finished one has its own
\* list record, every item it inserted is attached to that list, and the list
\* holds exactly the items of a solo run on its plan
C10_ConcurrentCallsIndependent ==
  \A p \in Procs : pc[p] = "done" =>
    /\ ListOf(p) \in shoppingLists
    /\ \A q \in Procs \ {p} : ~IsNull(shoppingList[q]) => ListOf(q).id # ListOf(p).id
    /\ StoredItemsOf(p) = ItemsOf(p)
    /\ Cardinality(StoredItemsOf(p)) = Len(ingredientMap[p])
    /\ TriplesOf(p) = SoloTriples(LinesSeen(p))

\* two finished calls for one plan whose statements interleaved: the call
\* that inserted its list record second inserted its items first
C10_Witness ==
  \E p, q \in Procs :
    /\ p # q
    /\ pc[p] = "done" /\ pc[q] = "done"
    /\ PlanOf(p) = PlanOf(q)
    /\ ListOf(p).id < ListOf(q).id
    /\ inserted[p] # {} /\ inserted[q] # {}
    /\ \A a \in inserted[p], b \in inserted[q] : b < a

\* C11: a generator step only adds rows: it leaves every meal plan, entry,
\* recipe and ingredient as it was, and every shopping list and every item
\* already stored stays in the store with all its fields, the quantity,
\* purchased flag and notes written by earlier updates included
C11_GeneratorOnlyAddsRows ==
  [][pc' # pc =>
       /\ mealPlans' = mealPlans
       /\ mealPlanEntries' = mealPlanEntries
       /\ recipes' = recipes
       /\ recipeIngredients' = recipeIngredients
       /\ ingredients' = ingredients
       /\ \A l \in shoppingLists : l \in shoppingLists'
       /\ \A it \in shoppingListItems : it \in shoppingListItems']_vars

\* an invocation has inserted its items into a store that holds an older
\* item of another list, ticked off and with quantity and notes rewritten
C11_Witness ==
  \E p \in Procs :
    /\ pc[p] = "done"
    /\ inserted[p] # {}
    /\ \E it \in shoppingListItems :
         /\ it.shopping_list_id # ListOf(p).id
         /\ \A i \in inserted[p] : it.id < i
         /\ it.is_purchased
         /\ it.quantity = Some(0)
         /\ it.notes = Some("x")

\* the sum, over the (entry, line) pairs of S, of line.quantity * entry.servings
RECURSIVE LineTimesServings(_)
LineTimesServings(S) ==
  IF S = {} THEN 0
  ELSE LET x == CHOOSE x \in S : TRUE
       IN recipeIngredients[x[2]].quantity * mealPlanEntries[x[1]].servings
          + LineTimesServings(S \ {x})

\* C13: as the generator's test has it, each item of a generated list has
\* quantity equal to the sum over its contributing (entry, line) pairs of
\* line.quantity * entry.servings, whatever the recipes' own serving counts
C13_QuantityIsLineTimesServings ==
  \A p \in Procs : pc[p] = "done" =>
    \A it \in ItemsOf(p) :
      Val(it.quantity) =
        LineTimesServings(PairLines(LinesSeen(p), Val(it.ingredient_id), Val(it.unit)))

\* a finished list whose Flour item sums two entries of different servings,
\* both of a recipe that declares its own serving count
C13_Witness ==
  \E p \in Procs :
    /\ pc[p] = "done"
    /\ \E it \in ItemsOf(p) :
         LET S == PairLines(LinesSeen(p), Val(it.ingredient_id), Val(it.unit))
         IN /\ \E x, y \in S : mealPlanEntries[x[1]].servings # mealPlanEntries[y[1]].servings
            /\ \A x \in S : ~IsNull(recipes[mealPlanEntries[x[1]].recipe_id].servings)
            /\ Val(it.quantity) = 6 * QUnit

\* what the createShoppingList invocation read and wrote
CslPlan == Val(csl.input.meal_plan_id)
CslLines == PlanLines(CslPlan, csl.seen)
CslItems == {it \in shoppingListItems : it.shopping_list_id = Val(csl.shoppingList).id}
CslPopulated == csl.pc = "done" /\ Truthy(csl.input.meal_plan_id)

\* the recipe of the entry of an (entry, line) pair
RecipeOf(x) == mealPlanEntries[x[1]].recipe_id

\* the recipe declares a serving count one can divide by
Declares(r) == ~IsNull(recipes[r].servings) /\ Val(recipes[r].servings) # 0

\* the product of the declared serving counts, signs dropped: a common
\* denominator of every entry.servings / recipe.servings
Denominator ==
  Product({IF Declares(r) THEN Abs(Val(recipes[r].servings)) ELSE 1 : r \in DOMAIN recipes})

\* num / b as an integer, for a divisor b of num that may be negative
Over(num, b) == IF b < 0 THEN 0 - (num \div (0 - b)) ELSE num \div b

\* Denominator times the sum, over the (entry, line) pairs of S, of
\* line.quantity * (entry.servings / base[recipe])
RECURSIVE RatioSum(_, _)
RatioSum(S, base) ==
  IF S = {} THEN 0
  ELSE LET x == CHOOSE x \in S : TRUE
       IN Over(recipeIngredients[x[2]].quantity * mealPlanEntries[x[1]].servings * Denominator,
               base[RecipeOf(x)])
          + RatioSum(S \ {x}, base)

\* the serving count each recipe declares (1 stands in where it declares none)
Declared == [r \in DOMAIN recipes |-> IF Declares(r) THEN Val(recipes[r].servings) ELSE 1]

\* n / d rounded to the nearest integer, a tie going away from zero
Rounded(n, d) ==
  IF n < 0 THEN 0 - ((2 * (0 - n) + d) \div (2 * d)) ELSE (2 * n + d) \div (2 * d)

\* C14 as stated: after createShoppingList for a plan with entries, each
\* item (of recipes that declare a serving count) has quantity equal to the
\* sum over the plan's entries and the lines of its ingredient of
\* line.quantity * (entry.servings / recipe.servings)
C14_QuantityIsExactRatioSum ==
  CslPopulated =>
    \A it \in CslItems :
      LET S == IngredientLines(CslLines, Val(it.ingredient_id))
      IN (\A x \in S : Declares(RecipeOf(x))) =>
           Val(it.quantity) * Denominator = RatioSum(S, Declared)

\* C14 amended: each such item has quantity equal to that sum rounded to two
\* decimal places
C14_QuantityIsRoundedRatioSum ==
  CslPopulated =>
    \A it \in CslItems :
      LET S == IngredientLines(CslLines, Val(it.ingredient_id))
      IN (\A x \in S : Declares(RecipeOf(x))) =>
           Val(it.quantity) = Rounded(RatioSum(S, Declared), Denominator)

\* a populated list whose Milk item sums two entries of the same 4-serving
\* recipe, 0.25 * 1/4 + 0.25 * 2/4 = 0.1875, stored as 0.19
C14_Witness ==
  /\ CslPopulated
  /\ \E it \in CslItems :
       LET S == IngredientLines(CslLines, Val(it.ingredient_id))
       IN /\ \E x, y \in S : x[1] # y[1] /\ RecipeOf(x) = RecipeOf(y)
          /\ \A x \in S : Declares(RecipeOf(x))
          /\ RatioSum(S, Declared) % Denominator # 0
          /\ it.quantity = Some(19)

\* the plan has no entry
PlanHasNoEntries(id) == \A i \in 1..Len(mealPlanEntries) : mealPlanEntries[i].meal_plan_id # id

\* C15: createShoppingList with a non-null meal_plan_id that has no entries
\* rejects with an error and inserts no list; with meal_plan_id null it runs
\* no entries check and its insert adds one list with no plan and no item
C15_EmptyPlanRejectedNullPlanStandalone ==
  [][csl' # csl =>
       /\ (/\ csl.pc \in {"checkEntries", "insertList"}
           /\ ~IsNull(csl.input.meal_plan_id)
           /\ PlanHasNoEntries(Val(csl.input.meal_plan_id)))
            => /\ csl'.pc = "failed"
               /\ csl'.error # NoError
               /\ IsNull(csl'.shoppingList)
               /\ shoppingLists' = shoppingLists
               /\ shoppingListItems' = shoppingListItems
       /\ csl.pc # "failed"
       /\ (csl.pc = "idle" /\ IsNull(csl'.input.meal_plan_id)) => csl'.pc = "insertList"
       /\ (csl.pc = "insertList" /\ IsNull(csl.input.meal_plan_id))
            => /\ csl'.pc = "done"
               /\ \E l \in shoppingLists' \ shoppingLists :
                    /\ shoppingLists' = shoppingLists \cup {l}
                    /\ csl'.shoppingList = Some(l)
                    /\ IsNull(l.meal_plan_id)
                    /\ l.name = csl.input.name
                    /\ \A it \in shoppingListItems' : it.shopping_list_id # l.id
               /\ shoppingListItems' = shoppingListItems]_vars

\* the call for plan 2, which exists and has no entry, was rejected while
\* plan 1 has entries, and no list was stored
C15_Witness ==
  /\ csl.pc = "failed"
  /\ csl.input.meal_plan_id = Some(2)
  /\ csl.error = NotFoundOrNoEntries(2)
  /\ 2 \in mealPlans
  /\ Len(mealPlanEntries) > 0
  /\ shoppingLists = {}

\* effective base servings: the recipe's servings when a positive integer,
\* 1 in every other case
PositiveOrOne ==
  [r \in DOMAIN recipes |->
     IF ~IsNull(recipes[r].servings) /\ Val(recipes[r].servings) > 0
     THEN Val(recipes[r].servings) ELSE 1]

\* C16: createShoppingList divides by the recipe's servings when they are a
\* positive integer and by 1 when they are null, zero or negative: each item
\* has quantity equal to the sum of line.quantity * entry.servings /
\* effective base servings (rounded to two decimals as the code stores it)
C16_BaseIsPositiveServingsOrOne ==
  CslPopulated =>
    \A it \in CslItems :
      Val(it.quantity) =
        Rounded(RatioSum(IngredientLines(CslLines, Val(it.ingredient_id)), PositiveOrOne),
                Denominator)

\* C17: createShoppingList never merges two lines of one ingredient with
\* different units: a populated list has exactly one item for every
\* (ingredient_id, unit) pair of its plan
C17_PopulationKeepsUnitsApart ==
  CslPopulated =>
    \A pr \in PairsOf(CslLines) :
      Cardinality({it \in CslItems :
                     it.ingredient_id = Some(pr[1]) /\ it.unit = Some(pr[2])}) = 1

ItemIds == {it.id : it \in shoppingListItems}

\* C18: an item is stored with is_purchased = false by each of the three
\* creation paths, and an item has is_purchased = true only if the last
\* updateShoppingListItem call on it that supplied is_purchased supplied true
C18_PurchasedOnlyByUpdate ==
  /\ [][\A it \in shoppingListItems' : it.id \notin ItemIds => ~it.is_purchased]_vars
  /\ [](\A it \in shoppingListItems :
          it.is_purchased =>
            it.id \in DOMAIN supplied /\ supplied[it.id].is_purchased = Given(TRUE))

\* the store holds an item of each creation path: the generator's, the one
\* createShoppingList populated and a manual one; one was ticked off, one
\* was ticked off and on again, one was never updated
C18_Witness ==
  /\ pc["g1"] = "done" /\ inserted["g1"] # {}
  /\ CslPopulated /\ CslItems # {}
  /\ ManualItems # {}
  /\ \E a, b, c \in shoppingListItems :
       /\ a.is_purchased
       /\ ~b.is_purchased /\ b.id \in DOMAIN supplied
       /\ c.id \notin DOMAIN supplied

\* the row an update with this input leaves of row it
Updated(it, in) ==
  [it EXCEPT !.is_purchased = IF in.is_purchased = Undefined THEN @ ELSE in.is_purchased[1],
             !.quantity = IF in.quantity = Undefined THEN @ ELSE in.quantity[1],
             !.notes = IF in.notes = Undefined THEN @ ELSE in.notes[1]]

\* C19: updateShoppingListItem on an existing item changes exactly the
\* fields its input supplies among is_purchased, quantity and notes (a
\* supplied null or 0 is stored as such) and leaves the item's other fields
\* and every other item as they were; after any sequence of updates each of
\* the three fields holds the value of the last update that supplied it
C19_UpdateWritesSuppliedFieldsOnly ==
  /\ [][(last'.op = "updateShoppingListItem" /\ csl' = csl /\ last'.id \in ItemIds) =>
          \E in \in UpdateInputs({last'.id}) :
            /\ supplied'[in.id] = Merge(IF in.id \in DOMAIN supplied
                                        THEN supplied[in.id] ELSE NothingSupplied, in)
            /\ shoppingListItems' =
                 {IF it.id = in.id THEN Updated(it, in) ELSE it : it \in shoppingListItems}
            /\ last'.outcome = "row"]_vars
  /\ [](\A it \in shoppingListItems :
          it.id \in DOMAIN supplied =>
            LET sp == supplied[it.id]
            IN /\ IsGiven(sp.is_purchased) => it.is_purchased = sp.is_purchased[1]
               /\ IsGiven(sp.quantity) => it.quantity = sp.quantity[1]
               /\ IsGiven(sp.notes) => it.notes = sp.notes[1])

\* an item whose quantity was set to 0 and then to null, whose notes were
\* written and which was ticked off, next to an item never updated
C19_Witness ==
  \E a, b \in shoppingListItems :
    /\ a.id \in DOMAIN supplied
    /\ a.quantity = Null /\ a.notes = Some("x") /\ a.is_purchased
    /\ a.name = "Flour" /\ a.unit = Some(Cup)
    /\ b.id \notin DOMAIN supplied
    /\ b.quantity # Null

\* the ids a call of one of the four handlers has to match
StoredIds(op) ==
  IF op = "updateShoppingListItem" THEN ItemIds
  ELSE IF op = "updateRecipe" THEN DOMAIN recipes
  ELSE {r.id : r \in cookingSessions}

ByIdOps ==
  {"updateShoppingListItem", "updateCookingSession", "completeCookingSession", "updateRecipe"}

SessionWithId(sessions, id) == CHOOSE r \in sessions : r.id = id

\* a rating that completeCookingSession accepts
ValidRating(rating) == IsGiven(rating) /\ Arg(rating) \in 1..5

\* C21: completeCookingSession(id, rating) on an existing session always sets
\* completed_at, stores a rating within 1..5 (also over the rating of an
\* earlier completion), keeps the previous rating when the rating is absent
\* or outside 1..5, and never changes current_step or notes.
C21_CompleteSetsCompletedAtAndValidRating ==
  [][\A id \in StoredIds("completeCookingSession") \cap {last'.id}, rating \in RatingArgs :
       completeCookingSession(id, rating) =>
         LET old == SessionWithId(cookingSessions, id)
             new == SessionWithId(cookingSessions', id)
         IN /\ id \in StoredIds("completeCookingSession")'
            /\ new.completed_at # Null
            /\ new.rating = IF ValidRating(rating) THEN Some(Arg(rating)) ELSE old.rating
            /\ new.current_step = old.current_step
            /\ new.notes = old.notes
            /\ last'.outcome = "row"]_vars

\* a session that holds a step, notes and the rating 5 has just been
\* completed
C21_Witness ==
  /\ last.op = "completeCookingSession"
  /\ last.outcome = "row"
  /\ \E r \in cookingSessions :
       /\ r.id = last.id
       /\ r.rating = Some(5)
       /\ r.completed_at # Null
       /\ r.current_step = 2
       /\ r.notes # Null

\* C22: updateCookingSession sets completed_at exactly when its input
\* supplies a rating; an update of current_step and/or notes alone leaves
\* completed_at and rating as they were, and every field that is not
\* supplied keeps its value.
C22_UpdateCompletesIffRatingSupplied ==
  [][\A input \in CookingInputs(StoredIds("updateCookingSession") \cap {last'.id}) :
       updateCookingSession(input) =>
         LET old == SessionWithId(cookingSessions, input.id)
             new == SessionWithId(cookingSessions', input.id)
         IN /\ input.id \in StoredIds("updateCookingSession")'
            /\ new.completed_at = IF IsGiven(input.rating) THEN Some(Now)
                                  ELSE old.completed_at
            /\ new.rating = IF IsGiven(input.rating) THEN Arg(input.rating) ELSE old.rating
            /\ new.current_step = IF IsGiven(input.current_step)
                                  THEN Arg(input.current_step) ELSE old.current_step
            /\ new.notes = IF IsGiven(input.notes) THEN Arg(input.notes) ELSE old.notes
            /\ new.recipe_id = old.recipe_id
            /\ new.started_at = old.started_at]_vars

\* an update has left a session with a step and notes, not completed and
\* not rated
C22_Witness ==
  /\ last.op = "updateCookingSession"
  /\ last.outcome = "row"
  /\ \E r \in cookingSessions :
       /\ r.id = last.id
       /\ r.current_step = 1
       /\ r.notes = Some("n")
       /\ r.completed_at = Null
       /\ r.rating = Null

\* C23: every stored cooking session's rating is null or an integer
\* between 1 and 5.
C23_RatingIsNullOrOneToFive ==
  \A r \in cookingSessions : IsNull(r.rating) \/ Val(r.rating) \in 1..5

\* C27: a cooking session with a rating also has completed_at, and a
\* completed_at that has been set is never reset to null.
C27_RatedIsCompletedAndStaysCompleted ==
  /\ [](\A r \in cookingSessions : r.rating # Null => r.completed_at # Null)
  /\ [][\A r \in cookingSessions :
          r.completed_at # Null =>
            \E n \in cookingSessions' : n.id = r.id /\ n.completed_at # Null]_vars

\* a completed and rated session has been updated after its completion
C27_Witness ==
  /\ last.op = "updateCookingSession"
  /\ last.outcome = "row"
  /\ \E r \in cookingSessions :
       /\ r.id = last.id
       /\ r.rating = Some(3)
       /\ r.completed_at # Null
       /\ r.notes = Some("n")

\* ------------------------------------------------------- meal plan entries
\* C24: createMealPlanEntry rejects with a not-found error and persists no
\* entry when the meal plan or the recipe it names does not exist, so every
\* stored meal plan entry references an existing meal plan and an existing
\* recipe.
C24_EntriesReferenceExistingPlanAndRecipe ==
  /\ [](\A i \in DOMAIN mealPlanEntries :
          /\ mealPlanEntries[i].meal_plan_id \in mealPlans
          /\ mealPlanEntries[i].recipe_id \in DOMAIN recipes)
  /\ [][\A m \in PlanArgs, r \in EntryRecipeArgs :
          (m \notin mealPlans \/ r \notin DOMAIN recipes) =>
            /\ \A s \in ServingsArgs : ~ createMealPlanEntry(m, r, s)
            /\ createMealPlanEntryRejects(m, r) =>
                 /\ mealPlanEntries' = mealPlanEntries
                 /\ last'.outcome = "error"
                 /\ last'.error \in {MealPlanNotFound(m), RecipeNotFound(r)}]_vars

\* a call naming a recipe that does not exist has been rejected while the
\* plan holds an entry
C24_Witness ==
  /\ last.op = "createMealPlanEntry"
  /\ last.outcome = "error"
  /\ last.error = RecipeNotFound(9)
  /\ Len(mealPlanEntries) = 1

\* ------------------------------------------------------------ the group key
\* C26: the key ingredient_id + "-" + unit is injective on pairs of a
\* non-negative integer id and any unit string, units with "-" or digits
\* included: two rows with the same key have the same id and the same unit.
C26_MapKeyIsInjective ==
  (calc.op = "MapKey" /\ calc.keyA = calc.keyB) => calc.a = calc.b

\* the keys of id 12 with unit "3oz" and of id 123 with unit "oz" were built
C26_Witness ==
  /\ calc.op = "MapKey"
  /\ calc.a = [ingredient_id |-> 12, unit |-> <<"3", "o", "z">>]
  /\ calc.b = [ingredient_id |-> 123, unit |-> <<"o", "z">>]
  /\ calc.keyA = <<"1", "2", "-", "3", "o", "z">>
  /\ calc.keyB = <<"1", "2", "3", "-", "o", "z">>

\* ------------------------------------------------------------------ rounding
\* every contribution is a whole number of eighths of a hundredth: a line
\* quantity is a whole number of halves, a serving count divides 4
Eighths == 2 * 4

\* the sum of the first n contributions, in eighths of a hundredth:
\* quantity * servings for the generator, quantity * servings / base for
\* createShoppingList
RECURSIVE ContributionsInEighths(_, _, _)
ContributionsInEighths(rows, n, perBase) ==
  IF n = 0 THEN 0
  ELSE LET row == rows[n]
           base == IF perBase /\ row.recipe_servings # Null THEN Val(row.recipe_servings) ELSE 1
       IN (row.recipe_quantity.num * row.entry_servings * Eighths)
            \div (row.recipe_quantity.den * base)
          + ContributionsInEighths(rows, n - 1, perBase)

\* the fraction r is e eighths
IsEighths(r, e) == r.num * Eighths = e * r.den

\* C25: neither path rounds a contribution while it accumulates;
\* createShoppingList rounds each ingredient's final sum to two decimals once
\* before it stores it, generateShoppingListFromMealPlan stores the final sum
\* unrounded.
C25_RoundedOnceAtTheEndOrNotAtAll ==
  calc.op \in {"accumulating", "stored"} =>
    /\ IsEighths(calc.total_quantity, ContributionsInEighths(calc.rows, calc.n, FALSE))
    /\ IsEighths(calc.totalQuantity, ContributionsInEighths(calc.rows, calc.n, TRUE))
    /\ calc.op = "stored" =>
         /\ IsEighths(Val(calc.generated),
                      ContributionsInEighths(calc.rows, Len(calc.rows), FALSE))
         /\ Val(calc.created) =
              Rounded(ContributionsInEighths(calc.rows, Len(calc.rows), TRUE), Eighths)

\* 0.125 once and 0.25 for one of the recipe's four servings: the generator
\* has stored 0.375, createShoppingList 0.19 for the sum 0.1875
C25_Witness ==
  /\ calc.op = "stored"
  /\ calc.rows = <<[recipe_quantity |-> Rat(25, 2), entry_servings |-> 1,
                    recipe_servings |-> Null],
                   [recipe_quantity |-> Rat(25, 1), entry_servings |-> 1,
                    recipe_servings |-> Some(4)]>>
  /\ calc.generated = Some(Rat(75, 2))
  /\ calc.created = Some(19)

\* -------------------------------------------------------------- CookingMode
\* C28: in CookingMode, for every recipe (one without steps included), after
\* any sequence of Next, Previous and overview clicks from step 0, currentStep
\* is never negative and never above max(steps.length - 1, 0), and the step
\* sent to updateCookingSession is the new currentStep.
C28_CurrentStepWithinSteps ==
  cm.mounted =>
    /\ cm.currentStep >= 0
    /\ cm.currentStep <= Max(Len(cm.steps) - 1, 0)
    /\ cm.sent # Null => Val(cm.sent) = cm.currentStep

\* C29: the timer is never negative and isTimerRunning is true only while
\* timer > 0; the tick from 1 to 0 also sets isTimerRunning to false; a
\* running timer that is not paused, reset or restarted eventually reaches 0.
C29_TimerCountsDownToZeroAndStops ==
  /\ [](cm.timer >= 0 /\ (cm.isTimerRunning => cm.timer > 0))
  /\ [][(cm.timer = 1 /\ cm'.timer = 0) => ~cm'.isTimerRunning]_vars
  /\ \A k \in 0..MaxClicks :
       (cm.isTimerRunning /\ cm.clicks = k) ~> (cm.timer = 0 \/ cm.clicks # k)

\* the one-minute timer, started with the only click so far, has counted
\* down to its last second and is still running
C29_Witness ==
  /\ cm.clicks = 1
  /\ cm.timer = 1
  /\ cm.isTimerRunning

\* ------------------------------------------------------------ createRecipe
\* C30: createRecipe is all-or-nothing: when the insert of the ingredient
\* associations fails, the call rejects and neither the recipe row nor any
\* recipe-ingredient row of that call remains stored.
C30_CreateRecipeAllOrNothing ==
  cr.pc = "failed" =>
    /\ cr.error # NoError
    /\ cr.recipe # Null => Val(cr.recipe) \notin DOMAIN recipes
    /\ \A k \in DOMAIN recipeIngredients :
         cr.recipe # Null => recipeIngredients[k].recipe_id # Val(cr.recipe)
====
